---- MODULE Spec2Model ----
(***************************************************************************)
(* Verification model of the FormBuilder application: the preview's        *)
(* visibility resolver (getVisibleFieldIds), the client response validator *)
(* (validateFormResponse), the server validator (validateResponse) and the *)
(* form/response store behind the HTTP endpoints.                          *)
(*                                                                         *)
(* JavaScript strings are sequences of one-character strings, so that      *)
(* length, trim and option membership are computed, not assumed.  Field    *)
(* ids and type tags are opaque and only ever compared.                    *)
(***************************************************************************)
EXTENDS Integers, Sequences, FiniteSets, TLC

\* ------------------------------------------------------------------------
\* Bounds of the model
\* ------------------------------------------------------------------------
MaxFields == 3

MaxRows == 2

\* ------------------------------------------------------------------------
\* JavaScript values held in a response value map
\* ------------------------------------------------------------------------
NoCells == [c \in {} |-> 0]

Undefined == [k |-> "undefined", s |-> <<>>, rows |-> <<>>]

Str(s) == [k |-> "string", s |-> s, rows |-> <<>>]

Arr(rows) == [k |-> "array", s |-> <<>>, rows |-> rows]

\* entries of a table value: a row object, an explicit null, or a hole of a
\* sparse array (left behind by table[rowIdx] = ... past the end)
RowObject(cells) == [k |-> "object", cells |-> cells]

RowNull == [k |-> "null", cells |-> NoCells]

RowHole == [k |-> "hole", cells |-> NoCells]

\* an entry that is undefined: what the spread [...value] makes of a hole
RowUndefined == [k |-> "undefined", cells |-> NoCells]

\* values[id] : a missing key reads as undefined
Get(values, id) == IF id \in DOMAIN values THEN values[id] ELSE Undefined

\* row[col.id] on a row object
Cell(row, colId) == IF colId \in DOMAIN row.cells THEN row.cells[colId] ELSE Undefined

\* JavaScript truthiness of a value: undefined and "" are falsy
Truthy(v) == v.k = "array" \/ (v.k = "string" /\ v.s # <<>>)

RECURSIVE TrimStart(_)
TrimStart(s) == IF s # <<>> /\ Head(s) = " " THEN TrimStart(Tail(s)) ELSE s

RECURSIVE TrimEnd(_)
TrimEnd(s) ==
    IF s # <<>> /\ s[Len(s)] = " " THEN TrimEnd(SubSeq(s, 1, Len(s) - 1)) ELSE s

\* String.prototype.trim
Trim(s) == TrimEnd(TrimStart(s))

\* value?.trim() raises when value is neither nullish nor a string
TrimThrows(v) == v.k = "array"

\* !value?.trim()
BlankAfterTrim(v) == v.k = "undefined" \/ (v.k = "string" /\ Trim(v.s) = <<>>)

\* value?.length < n  (undefined < n is false)
LengthBelow(v, n) ==
    \/ v.k = "string" /\ Len(v.s) < n
    \/ v.k = "array" /\ Len(v.rows) < n

\* value?.length > n
LengthAbove(v, n) ==
    \/ v.k = "string" /\ Len(v.s) > n
    \/ v.k = "array" /\ Len(v.rows) > n

\* options.includes(value)
Includes(items, v) == v.k = "string" /\ \E i \in 1..Len(items) : items[i] = v.s

\* ------------------------------------------------------------------------
\* Schema: fields and table columns (formTypes.ts)
\* ------------------------------------------------------------------------
NoOptions == [defined |-> FALSE, items |-> <<>>]

Options(items) == [defined |-> TRUE, items |-> items]

NoMap == [o \in {} |-> ""]

NoCondition == [defined |-> FALSE, map |-> NoMap]

Condition(map) == [defined |-> TRUE, map |-> map]

\* rowLabels?: string[]  (undefined on dynamic tables)
NoRowLabels == [defined |-> FALSE, items |-> <<>>]

RowLabels(items) == [defined |-> TRUE, items |-> items]

TableColumn(id, type, label, required, minLength, maxLength, options) ==
    [id |-> id, type |-> type, label |-> label, required |-> required,
     minLength |-> minLength, maxLength |-> maxLength, options |-> options]

TextField(id, label, required, minLength, maxLength) ==
    [id |-> id, type |-> "text", label |-> label, required |-> required,
     minLength |-> minLength, maxLength |-> maxLength, options |-> NoOptions,
     condition |-> NoCondition, columns |-> <<>>, mode |-> "", rowLabels |-> NoRowLabels]

DropdownField(id, label, options, required, condition) ==
    [id |-> id, type |-> "dropdown", label |-> label, required |-> required,
     minLength |-> 0, maxLength |-> 0, options |-> Options(options),
     condition |-> condition, columns |-> <<>>, mode |-> "",
     rowLabels |-> NoRowLabels]

TableField(id, label, columns, mode, rowLabels) ==
    [id |-> id, type |-> "table", label |-> label, required |-> FALSE,
     minLength |-> 0, maxLength |-> 0, options |-> NoOptions,
     condition |-> NoCondition, columns |-> columns, mode |-> mode,
     rowLabels |-> rowLabels]

\* field.type === "dropdown" && field.condition   (an empty map {} is truthy)
HasCondition(field) == field.type = "dropdown" /\ field.condition.defined

\* ------------------------------------------------------------------------
\* getVisibleFieldIds (FormPreview)
\* ------------------------------------------------------------------------
\* mutant: only the first dropdown with a condition contributes targets
possibleJumpTargets_FirstOnly(fields) ==
    LET first == { j \in 1..Len(fields) :
                     /\ HasCondition(fields[j])
                     /\ \A h \in 1..(j - 1) : ~HasCondition(fields[h]) }
    IN  UNION { { fields[i].condition.map[o] : o \in DOMAIN fields[i].condition.map }
                : i \in first } \ {""}

\* Object.values(field.condition).forEach(id => { if (id) add(id) })
possibleJumpTargets(fields) ==
    UNION { { fields[i].condition.map[o] : o \in DOMAIN fields[i].condition.map }
            : i \in { j \in 1..Len(fields) : HasCondition(fields[j]) } } \ {""}

\* mutant: the scan does not break at the first match, the last one wins
jumpDropdownIdx_Last(fields) ==
    IF \E i \in 1..Len(fields) : HasCondition(fields[i])
    THEN CHOOSE i \in 1..Len(fields) :
            /\ HasCondition(fields[i])
            /\ \A j \in (i + 1)..Len(fields) : ~HasCondition(fields[j])
    ELSE 0

\* index (1-based, 0 when there is none) of the first dropdown with a condition
jumpDropdownIdx(fields) ==
    IF \E i \in 1..Len(fields) : HasCondition(fields[i])
    THEN CHOOSE i \in 1..Len(fields) :
            /\ HasCondition(fields[i])
            /\ \A j \in 1..(i - 1) : ~HasCondition(fields[j])
    ELSE 0

\* field.condition[values[field.id]], "" standing for no target
ConditionLookup(field, v) ==
    IF v.k = "string" /\ v.s \in DOMAIN field.condition.map
    THEN field.condition.map[v.s]
    ELSE ""

\* the jump target selected in the first dropdown with a condition, "" for null
jumpTargetId(fields, values) ==
    LET b == jumpDropdownIdx(fields) IN
    IF b = 0 THEN ""
    ELSE IF Truthy(Get(values, fields[b].id))
         THEN ConditionLookup(fields[b], Get(values, fields[b].id))
         ELSE ""

\* mutant: the jump target is never found, the scan starts at the first field
findIndex_NotFound(fields, id) == 0

\* fields.findIndex(f => f.id === id), 1-based, 0 when not found
findIndex(fields, id) ==
    IF \E i \in 1..Len(fields) : fields[i].id = id
    THEN CHOOSE i \in 1..Len(fields) :
            /\ fields[i].id = id
            /\ \A j \in 1..(i - 1) : fields[j].id # id
    ELSE 0

\* mutant: the scan keeps every field, condition targets included
RECURSIVE AfterScan_KeepAll(_, _, _, _)
AfterScan_KeepAll(fields, i, targets, jump) ==
    IF i > Len(fields) THEN <<>>
    ELSE <<fields[i].id>> \o AfterScan_KeepAll(fields, i + 1, targets, jump)

RECURSIVE AfterScan(_, _, _, _)
AfterScan(fields, i, targets, jump) ==
    IF i > Len(fields) THEN <<>>
    ELSE (IF fields[i].id \notin targets \/ fields[i].id = jump
          THEN <<fields[i].id>> ELSE <<>>)
         \o AfterScan(fields, i + 1, targets, jump)

\* mutant: without a selected jump target nothing after the dropdown is scanned
getVisibleFieldIds_OnlyBranch(fields, values) ==
    LET b == jumpDropdownIdx(fields)
        jump == jumpTargetId(fields, values)
    IN  IF b # 0
        THEN IF jump # ""
             THEN <<fields[b].id, jump>>
                  \o AfterScan(fields, findIndex(fields, jump) + 1,
                               possibleJumpTargets(fields), jump)
             ELSE <<fields[b].id>>
        ELSE [i \in 1..Len(fields) |-> fields[i].id]

getVisibleFieldIds(fields, values) ==
    LET b == jumpDropdownIdx(fields)
        jump == jumpTargetId(fields, values)
        afterIdx == IF jump # "" THEN findIndex(fields, jump) + 1 ELSE b + 1
    IN  IF b # 0
        THEN <<fields[b].id>>
             \o (IF jump # "" THEN <<jump>> ELSE <<>>)
             \o AfterScan(fields, afterIdx, possibleJumpTargets(fields), jump)
        ELSE [i \in 1..Len(fields) |-> fields[i].id]

\* ------------------------------------------------------------------------
\* Validation messages
\* ------------------------------------------------------------------------
\* `${field.label}${rule}` with the number n inside the rule when n # 0, e.g.
\* "<label> must be at least <n> characters."
FieldMessage(field, rule, n) ==
    [inTable |-> FALSE, col |-> <<>>, field |-> field.label, row |-> 0,
     rule |-> rule, n |-> n]

\* `${col.label} in ${field.label} row ${rowIdx + 1}${rule}`
CellMessage(col, field, rowIdx, rule, n) ==
    [inTable |-> TRUE, col |-> col.label, field |-> field.label, row |-> rowIdx + 1,
     rule |-> rule, n |-> n]

\* the outcome of a validator run: the messages pushed, or a raised TypeError
Returned(errors) == [threw |-> FALSE, errors |-> errors]

Thrown == [threw |-> TRUE, errors |-> <<>>]

\* mutant: the first message ends the run
Then_ShortCircuit(a, b) ==
    IF a.threw THEN Thrown
    ELSE IF a.errors # <<>> THEN a
    ELSE b

\* sequencing of two steps of a run: a raise aborts what follows
Then(a, b) == IF a.threw \/ b.threw THEN Thrown ELSE Returned(a.errors \o b.errors)

PushIf(cond, msg) == Returned(IF cond THEN <<msg>> ELSE <<>>)

\* ------------------------------------------------------------------------
\* validateFormResponse (client)
\* ------------------------------------------------------------------------
\* mutant: an active jump target never switches a required flag off
effectiveRequired_Keep(required, fieldId, jump, visibleIdsSet) == required

\* mutant: an active jump target switches every required flag off, its own too
effectiveRequired_All(required, fieldId, jump, visibleIdsSet) ==
    IF jump # "" /\ jump \in visibleIdsSet THEN FALSE ELSE required

\* if (jumpTargetId && field.id !== jumpTargetId && visibleIdsSet.has(jumpTargetId))
\*     required = false
effectiveRequired(required, fieldId, jump, visibleIdsSet) ==
    IF jump # "" /\ fieldId # jump /\ jump \in visibleIdsSet THEN FALSE ELSE required

\* mutant: under an active jump target every rule of another field is off
validateTextField_AllRulesOff(field, value, jump, visibleIdsSet) ==
    IF jump # "" /\ field.id # jump /\ jump \in visibleIdsSet THEN Returned(<<>>)
    ELSE Then(PushIf(field.required /\ BlankAfterTrim(value),
                     FieldMessage(field, " is required.", 0)),
         Then(PushIf(field.minLength # 0 /\ LengthBelow(value, field.minLength),
                     FieldMessage(field, " must be at least  characters.", field.minLength)),
              PushIf(field.maxLength # 0 /\ LengthAbove(value, field.maxLength),
                     FieldMessage(field, " must be at most  characters.", field.maxLength))))

validateTextField(field, value, jump, visibleIdsSet) ==
    LET required == effectiveRequired(field.required, field.id, jump, visibleIdsSet)
    IN  Then(IF required /\ TrimThrows(value) THEN Thrown
             ELSE PushIf(required /\ BlankAfterTrim(value),
                         FieldMessage(field, " is required.", 0)),
        Then(PushIf(field.minLength # 0 /\ LengthBelow(value, field.minLength),
                    FieldMessage(field, " must be at least  characters.", field.minLength)),
             PushIf(field.maxLength # 0 /\ LengthAbove(value, field.maxLength),
                    FieldMessage(field, " must be at most  characters.", field.maxLength))))

validateDropdownField(field, value, jump, visibleIdsSet) ==
    LET required == effectiveRequired(field.required, field.id, jump, visibleIdsSet)
    IN  Then(PushIf(required /\ ~Truthy(value), FieldMessage(field, " is required.", 0)),
             PushIf(Truthy(value) /\ field.options.defined
                        /\ ~Includes(field.options.items, value),
                    FieldMessage(field, " value is not valid.", 0)))

\* the body of field.columns.forEach(col => ...) for one row and one column
validateCell(field, col, row, rowIdx, jump, visibleIdsSet) ==
    LET colRequired == effectiveRequired(col.required, field.id, jump, visibleIdsSet)
        cell == Cell(row, col.id)
    IN  IF row.k \in {"null", "undefined"} THEN Thrown
        ELSE
        Then(IF col.type = "text" /\ colRequired /\ TrimThrows(cell) THEN Thrown
             ELSE PushIf(col.type = "text" /\ colRequired /\ BlankAfterTrim(cell),
                         CellMessage(col, field, rowIdx, " is required.", 0)),
        Then(PushIf(col.type = "text" /\ col.minLength # 0
                        /\ LengthBelow(cell, col.minLength),
                    CellMessage(col, field, rowIdx, " must be at least  characters.",
                                col.minLength)),
        Then(PushIf(col.type = "text" /\ col.maxLength # 0
                        /\ LengthAbove(cell, col.maxLength),
                    CellMessage(col, field, rowIdx, " must be at most  characters.",
                                col.maxLength)),
        Then(PushIf(col.type = "dropdown" /\ colRequired /\ ~Truthy(cell),
                    CellMessage(col, field, rowIdx, " is required.", 0)),
             PushIf(Truthy(cell) /\ col.options.defined
                        /\ ~Includes(col.options.items, cell),
                    CellMessage(col, field, rowIdx, " value is not valid.", 0))))))

RECURSIVE validateColumns(_, _, _, _, _, _)
validateColumns(field, c, row, rowIdx, jump, visibleIdsSet) ==
    IF c > Len(field.columns) THEN Returned(<<>>)
    ELSE Then(validateCell(field, field.columns[c], row, rowIdx, jump, visibleIdsSet),
              validateColumns(field, c + 1, row, rowIdx, jump, visibleIdsSet))

\* value.forEach((row, rowIdx) => ...): forEach does not visit the holes of a
\* sparse array; rowIdx is the 0-based index
RECURSIVE validateRows(_, _, _, _, _)
validateRows(field, rows, r, jump, visibleIdsSet) ==
    IF r > Len(rows) THEN Returned(<<>>)
    ELSE Then(IF rows[r].k = "hole" THEN Returned(<<>>)
              ELSE validateColumns(field, 1, rows[r], r - 1, jump, visibleIdsSet),
              validateRows(field, rows, r + 1, jump, visibleIdsSet))

\* mutant: a value that is no array counts as one row without cells
validateTableField_AbsentAsRow(field, value, jump, visibleIdsSet) ==
    IF value.k = "array"
    THEN validateRows(field, value.rows, 1, jump, visibleIdsSet)
    ELSE validateRows(field, <<RowObject(NoCells)>>, 1, jump, visibleIdsSet)

\* if (field.type === "table" && Array.isArray(value)) value.forEach(...)
validateTableField(field, value, jump, visibleIdsSet) ==
    IF value.k = "array"
    THEN validateRows(field, value.rows, 1, jump, visibleIdsSet)
    ELSE Returned(<<>>)

\* mutant: the visibility check at the top of the loop body is missing
validateField_Unfiltered(field, values, jump, visibleIdsSet) ==
    CASE field.type = "text" ->
            validateTextField(field, Get(values, field.id), jump, visibleIdsSet)
      [] field.type = "dropdown" ->
            validateDropdownField(field, Get(values, field.id), jump, visibleIdsSet)
      [] field.type = "table" ->
            validateTableField(field, Get(values, field.id), jump, visibleIdsSet)
      [] OTHER -> Returned(<<>>)

\* the body of form.fields.forEach(field => ...) for one field
validateField(field, values, jump, visibleIdsSet) ==
    IF field.id \notin visibleIdsSet THEN Returned(<<>>)
    ELSE CASE field.type = "text" ->
                validateTextField(field, Get(values, field.id), jump, visibleIdsSet)
           [] field.type = "dropdown" ->
                validateDropdownField(field, Get(values, field.id), jump, visibleIdsSet)
           [] field.type = "table" ->
                validateTableField(field, Get(values, field.id), jump, visibleIdsSet)
           [] OTHER -> Returned(<<>>)

RECURSIVE validateFields(_, _, _, _, _)
validateFields(fields, i, values, jump, visibleIdsSet) ==
    IF i > Len(fields) THEN Returned(<<>>)
    ELSE Then(validateField(fields[i], values, jump, visibleIdsSet),
              validateFields(fields, i + 1, values, jump, visibleIdsSet))

validateFormResponse(values, fields, visibleFieldIds) ==
    LET visibleIdsSet == { visibleFieldIds[i] : i \in 1..Len(visibleFieldIds) }
    IN  validateFields(fields, 1, values, jumpTargetId(fields, values), visibleIdsSet)

\* ------------------------------------------------------------------------
\* validateResponse (server)
\* ------------------------------------------------------------------------
\* `Field label missing for ${field.id}`
LabelMessage(field) ==
    [inTable |-> FALSE, col |-> <<>>, field |-> <<field.id>>, row |-> 0,
     rule |-> "Field label missing for ", n |-> 0]

\* `${col.label} in ${field.label}${rule}`: the server names no row
ServerCellMessage(col, field, rule) ==
    [inTable |-> TRUE, col |-> col.label, field |-> field.label, row |-> 0,
     rule |-> rule, n |-> 0]

serverValidateCell(field, col, row) ==
    LET cell == Cell(row, col.id)
    IN  IF row.k \in {"null", "undefined"} THEN Thrown
        ELSE
        Then(IF col.type = "text" /\ col.required /\ TrimThrows(cell) THEN Thrown
             ELSE PushIf(col.type = "text" /\ col.required /\ BlankAfterTrim(cell),
                         ServerCellMessage(col, field, " is required.")),
        Then(PushIf(col.type = "dropdown" /\ col.required /\ ~Truthy(cell),
                    ServerCellMessage(col, field, " is required.")),
             PushIf(Truthy(cell) /\ col.options.defined
                        /\ ~Includes(col.options.items, cell),
                    ServerCellMessage(col, field, " value is not valid."))))

RECURSIVE serverValidateColumns(_, _, _)
serverValidateColumns(field, c, row) ==
    IF c > Len(field.columns) THEN Returned(<<>>)
    ELSE Then(serverValidateCell(field, field.columns[c], row),
              serverValidateColumns(field, c + 1, row))

RECURSIVE serverValidateRows(_, _, _)
serverValidateRows(field, rows, r) ==
    IF r > Len(rows) THEN Returned(<<>>)
    ELSE Then(IF rows[r].k = "hole" THEN Returned(<<>>)
              ELSE serverValidateColumns(field, 1, rows[r]),
              serverValidateRows(field, rows, r + 1))

serverValidateField(field, data) ==
    LET value == Get(data, field.id)
    IN  Then(PushIf(Trim(field.label) = <<>>, LabelMessage(field)),
             CASE field.type = "text" ->
                    Then(IF field.required /\ TrimThrows(value) THEN Thrown
                         ELSE PushIf(field.required /\ BlankAfterTrim(value),
                                     FieldMessage(field, " is required.", 0)),
                    Then(PushIf(field.minLength # 0 /\ LengthBelow(value, field.minLength),
                                FieldMessage(field, " must be at least  characters.",
                                             field.minLength)),
                         PushIf(field.maxLength # 0 /\ LengthAbove(value, field.maxLength),
                                FieldMessage(field, " must be at most  characters.",
                                             field.maxLength))))
               [] field.type = "dropdown" ->
                    Then(PushIf(field.required /\ ~Truthy(value),
                                FieldMessage(field, " is required.", 0)),
                         PushIf(Truthy(value) /\ field.options.defined
                                    /\ ~Includes(field.options.items, value),
                                FieldMessage(field, " value is not valid.", 0)))
               [] field.type = "table" ->
                    IF value.k = "array" THEN serverValidateRows(field, value.rows, 1)
                    ELSE Returned(<<>>)
               [] OTHER -> Returned(<<>>))

RECURSIVE serverValidateFields(_, _, _)
serverValidateFields(fields, i, data) ==
    IF i > Len(fields) THEN Returned(<<>>)
    ELSE Then(serverValidateField(fields[i], data),
              serverValidateFields(fields, i + 1, data))

validateResponse(fields, data) == serverValidateFields(fields, 1, data)

\* JSON.stringify followed by JSON.parse of a value map (the request body):
\* undefined-valued keys are dropped and array holes become null
JsonRow(row) ==
    IF row.k = "object"
    THEN RowObject([c \in { d \in DOMAIN row.cells : row.cells[d].k # "undefined" }
                        |-> row.cells[c]])
    ELSE RowNull

JsonValue(v) ==
    IF v.k = "array" THEN Arr([r \in 1..Len(v.rows) |-> JsonRow(v.rows[r])]) ELSE v

Json(values) ==
    [id \in { d \in DOMAIN values : values[d].k # "undefined" } |-> JsonValue(values[id])]

\* ------------------------------------------------------------------------
\* State
\* ------------------------------------------------------------------------
VARIABLES
    fields,           \* form.fields of the form shown by FormPreview
    values,           \* FormPreview's values state
    visibleFieldIds,  \* the list handed to validateFormResponse
    result,           \* outcome of the last validator run
    pc,               \* position of the client: "input", "rendered" (resolver ran),
                      \* "submitted", "validated", "blocked", "threw", "posting",
                      \* "returned", "refused" or "editing"
    errors,           \* FormPreview's errors state (the displayed messages)
    posts,            \* bodies of the POSTs FormPreview has issued, in order
    nextFieldId,      \* number of field ids the builder has generated, plus one
    title,            \* FormBuilder's title state
    appMode,          \* App's mode state: "saved", "builder", "preview", "responses"
    form,             \* App's form state: {} for null, else the one form held
    editForm,         \* App's editForm state: {} for null, else the one form held
    showWarning,      \* App's showWarning state
    requests,         \* save requests of App.handleSave whose reply was not consumed
    forms,            \* table forms: id -> the stored form
    responses,        \* table responses: rows [id, form_id, data] in insertion order
    nextFormId,       \* number of ids generated so far, plus one
    nextResponseId,   \* the AUTO_INCREMENT counter of responses
    reply             \* the last HTTP reply of the server

previewVars == <<fields, values, visibleFieldIds, result, pc, errors, posts>>

builderVars == <<nextFieldId, title>>

appVars == <<appMode, form, editForm, showWarning, requests>>

storeVars == <<forms, responses, nextFormId, nextResponseId, reply>>

vars == <<fields, values, visibleFieldIds, result, pc, errors, posts, nextFieldId,
          title, appMode, form, editForm, showWarning, requests,
          forms, responses, nextFormId, nextResponseId, reply>>

NoForms == [id \in {} |-> 0]

NoReply == [op |-> "", id |-> 0, status |-> 0, body |-> <<>>]

\* the server just started on empty tables (ensureTablesExist)
EmptyStore ==
    /\ forms = NoForms
    /\ responses = <<>>
    /\ nextFormId = 1
    /\ nextResponseId = 1
    /\ reply = NoReply

\* no preview is open
NoPreview ==
    /\ fields = <<>>
    /\ values = [id \in {} |-> Undefined]
    /\ visibleFieldIds = <<>>
    /\ result = [threw |-> FALSE, errors |-> <<>>]
    /\ pc = "input"
    /\ errors = <<>>
    /\ posts = <<>>

\* the builder has generated no field id and its title input is empty
NoBuilder == nextFieldId = 1 /\ title = <<>>

\* App as mounted: useState(null), useState("saved"), useState(null), useState(false)
NoApp ==
    /\ appMode = "saved"
    /\ form = {}
    /\ editForm = {}
    /\ showWarning = FALSE
    /\ requests = <<>>

Title == <<"T">>

\* App showing FormPreview on a saved form with these fields
PreviewOpen ==
    /\ appMode = "preview"
    /\ form = {[id |-> 1, title |-> Title, fields |-> fields]}
    /\ editForm = form
    /\ showWarning = FALSE
    /\ requests = <<>>

\* App showing FormBuilder after Create New Form
BuilderOpen ==
    /\ appMode = "builder"
    /\ form = {}
    /\ editForm = {}
    /\ showWarning = FALSE
    /\ requests = <<>>

\* ------------------------------------------------------------------------
\* Input families
\* ------------------------------------------------------------------------
FieldIds == <<"f1", "f2", "f3", "f4", "f5">>

Labels == << <<"Q", "1">>, <<"Q", "2">>, <<"Q", "3">>, <<"Q", "4">>, <<"Q", "5">> >>

OptA == <<"A">>

OptB == <<"B">>

OptC == <<"C">>

\* ids a condition may name: those of a schema of full length, so that a
\* shorter schema has targets that are no field of it
TargetIds == { FieldIds[i] : i \in 1..MaxFields }

\* one-option and two-option condition maps, {} and a map to "" (None)
ResolverConditions ==
    {NoCondition, Condition(NoMap), Condition(OptA :> "")}
    \cup { Condition(OptA :> t) : t \in TargetIds }
    \cup { Condition(OptA :> FieldIds[p[1]] @@ OptB :> FieldIds[p[2]]) :
             p \in { q \in (1..MaxFields) \X (1..MaxFields) : q[1] < q[2] } }

ResolverKinds ==
    {[type |-> "text", condition |-> NoCondition]}
    \cup { [type |-> "dropdown", condition |-> c] : c \in ResolverConditions }

ResolverField(i, kind) ==
    IF kind.type = "text" THEN TextField(FieldIds[i], Labels[i], FALSE, 0, 0)
    ELSE DropdownField(FieldIds[i], Labels[i], <<OptA, OptB>>, FALSE, kind.condition)

Selections == {Undefined, Str(OptA), Str(OptB)}

DropdownIds(fs) == { fs[i].id : i \in { j \in 1..Len(fs) : fs[j].type = "dropdown" } }

\* ------------------------------------------------------------------------
\* Actions
\* ------------------------------------------------------------------------
\* const visibleFieldIds = getVisibleFieldIds()  (every render of FormPreview)
Render ==
    /\ pc = "input"
    /\ visibleFieldIds' = getVisibleFieldIds(fields, values)
    /\ pc' = "rendered"
    /\ UNCHANGED <<fields, values, result, errors, posts>>
    /\ UNCHANGED builderVars
    /\ UNCHANGED appVars
    /\ UNCHANGED storeVars

InitResolve ==
    /\ \E n \in 1..MaxFields : \E kinds \in [1..n -> ResolverKinds] :
          fields = [i \in 1..n |-> ResolverField(i, kinds[i])]
    /\ \E sel \in Selections : values = [id \in DropdownIds(fields) |-> sel]
    /\ visibleFieldIds = <<>>
    /\ result = Returned(<<>>)
    /\ pc = "input"
    /\ errors = <<>>
    /\ posts = <<>>
    /\ NoBuilder
    /\ PreviewOpen
    /\ EmptyStore

NextResolve == Render

SpecResolve == InitResolve /\ [][NextResolve]_vars

\* ------------------------------------------------------------------------
\* Input family of the validator: a dropdown that may branch, followed by a
\* required text field and a probe field in either order.  The probe ranges
\* over text, dropdown and table fields with their validation rules and over
\* the values a response may hold for them.
\* ------------------------------------------------------------------------
SA == <<"a">>

SAB == <<"a", "b">>

Blank == <<" ">>

Empty == <<>>

HeadConditions == {NoCondition, Condition(OptA :> "f2"), Condition(OptA :> "f3")}

HeadFields ==
    { DropdownField("f1", Labels[1], <<OptA, OptB>>, req, c) :
        req \in BOOLEAN, c \in HeadConditions }

ContextField(i) == TextField(FieldIds[i], Labels[i], TRUE, 0, 0)

TextProbes(i) ==
    { TextField(FieldIds[i], Labels[i], req, lim[1], lim[2]) :
        req \in BOOLEAN, lim \in {<<0, 0>>, <<2, 0>>, <<0, 1>>} }

DropdownProbes(i) ==
    { DropdownField(FieldIds[i], Labels[i], <<OptA, OptB>>, req, NoCondition) :
        req \in BOOLEAN }

ColLabel1 == <<"K", "1">>

ColLabel2 == <<"K", "2">>

RequiredTextColumn == TableColumn("c1", "text", ColLabel1, TRUE, 0, 0, NoOptions)

\* one-column tables: a text column with one rule (or with an options list left
\* on it), or a required dropdown column
SingleColumns ==
    { RequiredTextColumn,
      TableColumn("c1", "text", ColLabel1, FALSE, 2, 0, NoOptions),
      TableColumn("c1", "text", ColLabel1, FALSE, 0, 1, NoOptions),
      TableColumn("c1", "text", ColLabel1, FALSE, 0, 0, Options(<<OptA>>)),
      TableColumn("c1", "dropdown", ColLabel1, TRUE, 0, 0, Options(<<OptA, OptB>>)) }

TwoColumns ==
    << TableColumn("c1", "text", ColLabel1, TRUE, 0, 0, NoOptions),
       TableColumn("c2", "dropdown", ColLabel2, TRUE, 0, 0, Options(<<OptA, OptB>>)) >>

TableProbes(i) ==
    { TableField(FieldIds[i], Labels[i], <<col>>, "dynamic", NoRowLabels) :
        col \in SingleColumns }
    \cup { TableField(FieldIds[i], Labels[i], TwoColumns, "dynamic", NoRowLabels) }
    \cup { TableField(FieldIds[i], Labels[i], <<RequiredTextColumn>>, "static",
                      RowLabels(<< <<"R", "1">>, <<"R", "2">> >>)) }

Probes(i) == TextProbes(i) \cup DropdownProbes(i) \cup TableProbes(i)

TextValues == {Undefined, Str(Empty), Str(Blank), Str(SA), Str(SAB)}

DropdownValues == {Undefined, Str(Empty), Str(OptA), Str(OptC)}

CellValues(col) ==
    IF col.type = "text" THEN {Str(Blank), Str(SAB)} ELSE {Str(OptA), Str(OptC)}

\* the entries a table value may hold for these columns: a row object with each
\* cell set or unset, null, or a hole
RowChoices(columns) ==
    IF Len(columns) = 1
    THEN {RowNull, RowHole, RowObject(NoCells)}
         \cup { RowObject(columns[1].id :> v) : v \in CellValues(columns[1]) }
    ELSE {RowObject(NoCells)}
         \cup { RowObject(columns[1].id :> Str(SAB)) }
         \cup { RowObject(columns[2].id :> Str(OptC)) }
         \cup { RowObject(columns[1].id :> Str(SAB) @@ columns[2].id :> Str(OptC)) }

TableValues(columns) ==
    {Undefined} \cup
    UNION { { Arr(rows) : rows \in [1..n -> RowChoices(columns)] } : n \in 0..MaxRows }

ProbeValues(field) ==
    CASE field.type = "text" -> TextValues
      [] field.type = "dropdown" -> DropdownValues
      [] OTHER -> TableValues(field.columns)

\* every list of visible ids over the three fields (as a set: order is immaterial
\* to the validator, which builds a Set from it)
VisibleLists ==
    { <<>>, <<"f1">>, <<"f2">>, <<"f3">>, <<"f1", "f2">>, <<"f1", "f3">>,
      <<"f2", "f3">>, <<"f1", "f2", "f3">> }

\* validate(values, form) of FormPreview: the validator on the rendered list
ValidateVisible ==
    /\ pc = "rendered"
    /\ result' = validateFormResponse(values, fields, visibleFieldIds)
    /\ pc' = "submitted"
    /\ UNCHANGED <<fields, values, visibleFieldIds, errors, posts>>
    /\ UNCHANGED builderVars
    /\ UNCHANGED appVars
    /\ UNCHANGED storeVars

\* validateFormResponse called with a visible list of the caller's choice
ValidateWith(ids) ==
    /\ pc = "input"
    /\ visibleFieldIds' = ids
    /\ result' = validateFormResponse(values, fields, ids)
    /\ pc' = "validated"
    /\ UNCHANGED <<fields, values, errors, posts>>
    /\ UNCHANGED builderVars
    /\ UNCHANGED appVars
    /\ UNCHANGED storeVars

InitValidate ==
    /\ \E head \in HeadFields : \E p \in 2..3 : \E probe \in Probes(p) :
          fields = [i \in 1..3 |->
                      IF i = 1 THEN head ELSE IF i = p THEN probe ELSE ContextField(i)]
    /\ \E sel \in {Undefined, Str(OptA)} : \E t \in {Undefined, Str(SA)} :
       \E p \in 2..3 : \E v \in ProbeValues(fields[p]) :
          /\ fields[5 - p] = ContextField(5 - p)
          /\ values = ("f1" :> sel) @@ (FieldIds[p] :> v) @@ (FieldIds[5 - p] :> t)
    /\ visibleFieldIds = <<>>
    /\ result = Returned(<<>>)
    /\ pc = "input"
    /\ errors = <<>>
    /\ posts = <<>>
    /\ NoBuilder
    /\ PreviewOpen
    /\ EmptyStore

NextValidate ==
    \/ Render
    \/ ValidateVisible
    \/ \E ids \in VisibleLists : ValidateWith(ids)

SpecValidate == InitValidate /\ [][NextValidate]_vars

\* ------------------------------------------------------------------------
\* Submission from the preview (handleSubmit of FormPreview)
\* ------------------------------------------------------------------------
\* a message that is no validation message: `Database error`, err.message, ...
PlainMessage(text) ==
    [inTable |-> FALSE, col |-> <<>>, field |-> <<>>, row |-> 0, rule |-> text, n |-> 0]

\* mutant: the length of the validation errors is not looked at
blocksSubmission_Never(validationErrors) == FALSE

\* if (validationErrors.length) { setErrors(validationErrors); return; }
blocksSubmission(validationErrors) == Len(validationErrors) # 0

\* handleSubmit up to its first await: setErrors([]), validate, then either
\* setErrors(validationErrors) and return, or fetch(..., { method: "POST" }).
\* A TypeError raised by validate rejects the handler's promise before the try.
HandleSubmit ==
    /\ pc = "rendered"
    /\ LET validationErrors == validateFormResponse(values, fields, visibleFieldIds) IN
       /\ result' = validationErrors
       /\ IF validationErrors.threw
          THEN /\ errors' = <<>>
               /\ posts' = posts
               /\ pc' = "threw"
          ELSE IF blocksSubmission(validationErrors.errors)
          THEN /\ errors' = validationErrors.errors
               /\ posts' = posts
               /\ pc' = "blocked"
          ELSE /\ errors' = <<>>
               /\ posts' = Append(posts, Json(values))
               /\ pc' = "posting"
    /\ UNCHANGED <<fields, values, visibleFieldIds>>
    /\ UNCHANGED builderVars
    /\ UNCHANGED appVars
    /\ UNCHANGED storeVars

\* the rest of handleSubmit, after the awaits.  The server holds the previewed
\* form ("served"), no longer holds it ("gone"), or the fetch fails ("failed").
ReceiveReply(outcome) ==
    /\ pc = "posting"
    /\ LET serverErrors == validateResponse(fields, posts[Len(posts)]) IN
       CASE outcome = "failed" ->
                /\ errors' = <<PlainMessage("err.message")>>
                /\ pc' = "refused"
         [] outcome = "gone" ->
                /\ errors' = <<PlainMessage("Form not found")>>
                /\ pc' = "refused"
         [] OTHER ->
                IF serverErrors.threw
                THEN /\ errors' = <<PlainMessage("Database error")>>
                     /\ pc' = "refused"
                ELSE IF serverErrors.errors # <<>>
                THEN /\ errors' = serverErrors.errors
                     /\ pc' = "refused"
                ELSE /\ errors' = errors
                     /\ pc' = "returned"
    /\ UNCHANGED <<fields, values, visibleFieldIds, result, posts>>
    /\ UNCHANGED builderVars
    /\ UNCHANGED appVars
    /\ UNCHANGED storeVars

NextSubmit ==
    \/ Render
    \/ HandleSubmit
    \/ \E outcome \in {"served", "gone", "failed"} : ReceiveReply(outcome)

SpecSubmit == InitValidate /\ [][NextSubmit]_vars

\* ------------------------------------------------------------------------
\* The form builder: FormBuilder with TextFieldEditor, DropdownFieldEditor and
\* TableFieldEditor.  `fields` is the builder's fields state.
\* ------------------------------------------------------------------------
MaxColumns == 2

Untitled == <<"U", "n", "t", "i", "t", "l", "e", "d">>

UntitledTable == Untitled \o <<" ", "T", "a", "b", "l", "e">>

Option1 == <<"O", "p", "t", "i", "o", "n", " ", "1">>

ColumnLabel == <<"C", "o", "l", "u", "m", "n">>

Digits == <<"1", "2", "3", "4", "5", "6", "7", "8", "9">>

\* `Row ${n}`
RowLabel(n) == <<"R", "o", "w", " ", Digits[n]>>

\* what a row-label input may be set to
TypedLabels == {Empty, SA}

\* createField(type), with the generated id
createField(type, id) ==
    CASE type = "text" -> TextField(id, Untitled, FALSE, 0, 0)
      [] type = "dropdown" -> DropdownField(id, Untitled, <<Option1>>, FALSE, NoCondition)
      [] OTHER -> TableField(id, UntitledTable, <<>>, "dynamic", NoRowLabels)

\* fields.map(f => f.id === id ? { ...f, ...changes } : f)
updateFieldList(fs, id, changes) ==
    [i \in 1..Len(fs) |->
        IF fs[i].id = id
        THEN [k \in DOMAIN fs[i] |-> IF k \in DOMAIN changes THEN changes[k] ELSE fs[i][k]]
        ELSE fs[i]]

\* arr.filter((_, i) => i !== idx), idx 1-based here
RemoveAt(arr, idx) == [i \in 1..(Len(arr) - 1) |-> IF i < idx THEN arr[i] ELSE arr[i + 1]]

\* positions of the table fields of the builder
Tables == { i \in 1..Len(fields) : fields[i].type = "table" }

\* the builder step that replaces the fields state
Edit(newFields) ==
    /\ pc = "editing"
    /\ fields' = newFields
    /\ UNCHANGED <<values, visibleFieldIds, result, pc, errors, posts>>
    /\ UNCHANGED storeVars

\* addField: setFields(prev => [...prev, createField(type)])
addField(type) ==
    /\ nextFieldId <= MaxFields
    /\ Edit(Append(fields, createField(type, FieldIds[nextFieldId])))
    /\ nextFieldId' = nextFieldId + 1
    /\ UNCHANGED title
    /\ UNCHANGED appVars

\* removeField: setFields(prev => prev.filter(f => f.id !== id))
removeField(i) ==
    /\ i \in 1..Len(fields)
    /\ Edit(RemoveAt(fields, i))
    /\ UNCHANGED builderVars
    /\ UNCHANGED appVars

\* mutant: no default row label when a table becomes static
modeChanges_NoDefault(field, mode) ==
    ("mode" :> mode) @@
    ("rowLabels" :> IF mode = "static" THEN field.rowLabels ELSE NoRowLabels)

\* { mode, rowLabels: mode === "static" ? field.rowLabels ?? ["Row 1"] : undefined }
modeChanges(field, mode) ==
    ("mode" :> mode) @@
    ("rowLabels" :> IF mode = "static"
                    THEN (IF field.rowLabels.defined THEN field.rowLabels
                          ELSE RowLabels(<<RowLabel(1)>>))
                    ELSE NoRowLabels)

\* setMode of TableFieldEditor
setMode(i, mode) ==
    /\ i \in Tables
    /\ Edit(updateFieldList(fields, fields[i].id, modeChanges(fields[i], mode)))
    /\ UNCHANGED builderVars
    /\ UNCHANGED appVars

\* addColumn of TableFieldEditor: the column id is Date.now().toString()
addColumn(i) ==
    /\ i \in Tables
    /\ nextFieldId <= MaxFields
    /\ Len(fields[i].columns) < MaxColumns
    /\ Edit(updateFieldList(fields, fields[i].id,
            "columns" :> Append(fields[i].columns,
                TableColumn(FieldIds[nextFieldId], "text", ColumnLabel, FALSE, 0, 0,
                            NoOptions))))
    /\ nextFieldId' = nextFieldId + 1
    /\ UNCHANGED title
    /\ UNCHANGED appVars

\* removeColumn of TableFieldEditor
removeColumn(i, idx) ==
    /\ i \in Tables
    /\ idx \in 1..Len(fields[i].columns)
    /\ Edit(updateFieldList(fields, fields[i].id,
            "columns" :> RemoveAt(fields[i].columns, idx)))
    /\ UNCHANGED builderVars
    /\ UNCHANGED appVars

\* addRowLabel: the Rows section is rendered for static tables only
addRowLabel(i) ==
    /\ i \in Tables
    /\ fields[i].mode = "static"
    /\ Len(fields[i].rowLabels.items) < MaxRows
    /\ Edit(updateFieldList(fields, fields[i].id,
            "rowLabels" :> RowLabels(Append(fields[i].rowLabels.items,
                                            RowLabel(Len(fields[i].rowLabels.items) + 1)))))
    /\ UNCHANGED builderVars
    /\ UNCHANGED appVars

\* updateRowLabel: one input for every row label of a static table
updateRowLabel(i, idx, value) ==
    /\ i \in Tables
    /\ fields[i].mode = "static"
    /\ idx \in 1..Len(fields[i].rowLabels.items)
    /\ Edit(updateFieldList(fields, fields[i].id,
            "rowLabels" :> RowLabels([fields[i].rowLabels.items EXCEPT ![idx] = value])))
    /\ UNCHANGED builderVars
    /\ UNCHANGED appVars

\* removeRowLabel: the Remove button is rendered while rowLabels.length > 1
removeRowLabel(i, idx) ==
    /\ i \in Tables
    /\ fields[i].mode = "static"
    /\ Len(fields[i].rowLabels.items) > 1
    /\ idx \in 1..Len(fields[i].rowLabels.items)
    /\ Edit(updateFieldList(fields, fields[i].id,
            "rowLabels" :> RowLabels(RemoveAt(fields[i].rowLabels.items, idx))))
    /\ UNCHANGED builderVars
    /\ UNCHANGED appVars

MaxOptions == 2

MaxDropdowns == 1

\* `Option ${n}`
OptionLabel(n) == <<"O", "p", "t", "i", "o", "n", " ", Digits[n]>>

\* positions of the dropdown fields of the builder
Dropdowns == { i \in 1..Len(fields) : fields[i].type = "dropdown" }

\* arrayMove(arr, from, to) of @dnd-kit/sortable: take out at from, put in at to
arrayMove(arr, from, to) ==
    LET rest == RemoveAt(arr, from)
    IN  [i \in 1..Len(arr) |->
            IF i < to THEN rest[i] ELSE IF i = to THEN arr[from] ELSE rest[i - 1]]

\* handleFieldDragEnd: a field dropped on another one
handleFieldDragEnd(from, to) ==
    /\ from \in 1..Len(fields)
    /\ to \in 1..Len(fields)
    /\ from # to
    /\ Edit(arrayMove(fields, from, to))
    /\ UNCHANGED builderVars
    /\ UNCHANGED appVars

\* setConditionEnabled: the checkbox shows !!field.condition and toggles it
setConditionEnabled(i) ==
    /\ i \in Dropdowns
    /\ Edit(updateFieldList(fields, fields[i].id,
            "condition" :> IF fields[i].condition.defined THEN NoCondition
                           ELSE Condition(NoMap)))
    /\ UNCHANGED builderVars
    /\ UNCHANGED appVars

\* setOption of DropdownFieldEditor
setOption(i, index, value) ==
    /\ i \in Dropdowns
    /\ index \in 1..Len(fields[i].options.items)
    /\ fields[i].options.items[index] # value
    /\ Edit(updateFieldList(fields, fields[i].id,
            "options" :> Options([fields[i].options.items EXCEPT ![index] = value])))
    /\ UNCHANGED builderVars
    /\ UNCHANGED appVars

\* addOption of DropdownFieldEditor
addOption(i) ==
    /\ i \in Dropdowns
    /\ Len(fields[i].options.items) < MaxOptions
    /\ Edit(updateFieldList(fields, fields[i].id,
            "options" :> Options(Append(fields[i].options.items,
                                        OptionLabel(Len(fields[i].options.items) + 1)))))
    /\ UNCHANGED builderVars
    /\ UNCHANGED appVars

\* removeOption: the Remove button is rendered while options.length > 1
removeOption(i, index) ==
    /\ i \in Dropdowns
    /\ Len(fields[i].options.items) > 1
    /\ index \in 1..Len(fields[i].options.items)
    /\ Edit(updateFieldList(fields, fields[i].id,
            "options" :> Options(RemoveAt(fields[i].options.items, index))))
    /\ UNCHANGED builderVars
    /\ UNCHANGED appVars

\* setCondition(option, targetId): one select for every option while the
\* condition is enabled, offering None ("") and the fields after the dropdown
setCondition(i, index, t) ==
    /\ i \in Dropdowns
    /\ fields[i].condition.defined
    /\ index \in 1..Len(fields[i].options.items)
    /\ t = 0 \/ t \in (i + 1)..Len(fields)
    /\ LET option == fields[i].options.items[index]
           targetId == IF t = 0 THEN "" ELSE fields[t].id
           old == fields[i].condition.map
       IN  /\ (IF option \in DOMAIN old THEN old[option] ELSE "") # targetId
           /\ Edit(updateFieldList(fields, fields[i].id,
                   "condition" :> Condition([o \in DOMAIN old \cup {option} |->
                                               IF o = option THEN targetId ELSE old[o]])))
    /\ UNCHANGED builderVars
    /\ UNCHANGED appVars

\* the builder opened on a new form
InitBuilder ==
    /\ fields = <<>>
    /\ values = [id \in {} |-> Undefined]
    /\ visibleFieldIds = <<>>
    /\ result = Returned(<<>>)
    /\ pc = "editing"
    /\ errors = <<>>
    /\ posts = <<>>
    /\ NoBuilder
    /\ BuilderOpen
    /\ EmptyStore

NextBuilder ==
    \/ \E type \in {"text", "dropdown", "table"} : addField(type)
    \/ \E i \in 1..MaxFields : removeField(i)
    \/ \E i \in 1..MaxFields : \E mode \in {"static", "dynamic"} : setMode(i, mode)
    \/ \E i \in 1..MaxFields : addColumn(i)
    \/ \E i \in 1..MaxFields : \E idx \in 1..MaxColumns : removeColumn(i, idx)
    \/ \E i \in 1..MaxFields : addRowLabel(i)
    \/ \E i \in 1..MaxFields : \E idx \in 1..MaxRows : \E value \in TypedLabels :
          updateRowLabel(i, idx, value)
    \/ \E i \in 1..MaxFields : \E idx \in 1..MaxRows : removeRowLabel(i, idx)

SpecBuilder == InitBuilder /\ [][NextBuilder]_vars

\* the builder used on fields and the dropdown editor: adding, removing and
\* dragging fields, options and condition flow
NextConditions ==
    \/ \E type \in {"text", "dropdown", "table"} :
          /\ type = "dropdown" => Cardinality(Dropdowns) < MaxDropdowns
          /\ addField(type)
    \/ \E i \in 1..MaxFields : removeField(i)
    \/ \E from \in 1..MaxFields : \E to \in 1..MaxFields : handleFieldDragEnd(from, to)
    \/ \E i \in 1..MaxFields : setConditionEnabled(i)
    \/ \E i \in 1..MaxFields : \E index \in 1..MaxOptions : setOption(i, index, OptA)
    \/ \E i \in 1..MaxFields : addOption(i)
    \/ \E i \in 1..MaxFields : \E index \in 1..MaxOptions : removeOption(i, index)
    \/ \E i \in 1..MaxFields : \E index \in 1..MaxOptions : \E t \in 0..MaxFields :
          setCondition(i, index, t)

SpecConditions == InitBuilder /\ [][NextConditions]_vars

\* ------------------------------------------------------------------------
\* Editing in the preview: handleChange of FormPreview, handleCellChange and
\* handleAddRow of TableFieldRenderer.  Only the fields in visibleFieldIds are
\* rendered; every change re-renders and so recomputes visibleFieldIds.
\* ------------------------------------------------------------------------
\* the preview shows inputs (no request is in flight, the page was not left)
PreviewLive == pc \in {"rendered", "blocked", "threw"}

Rendered(id) == \E i \in 1..Len(visibleFieldIds) : visibleFieldIds[i] = id

\* value || ""  as shown by an input or select
Shown(v) == IF v.k = "string" THEN v.s ELSE <<>>

\* setValues({ ...values, [id]: value }) and the render that follows
handleChange(id, value) ==
    /\ values' = [k \in DOMAIN values \cup {id} |-> IF k = id THEN value ELSE values[k]]
    /\ visibleFieldIds' = getVisibleFieldIds(fields, values')
    /\ pc' = "rendered"
    /\ UNCHANGED <<fields, result, errors, posts>>
    /\ UNCHANGED builderVars
    /\ UNCHANGED appVars
    /\ UNCHANGED storeVars

\* onChange of the input of a text field or the select of a dropdown field
ChangeInput(i, s) ==
    /\ PreviewLive
    /\ i \in 1..Len(fields)
    /\ Rendered(fields[i].id)
    /\ \/ fields[i].type = "text"
       \/ fields[i].type = "dropdown"
            /\ (s = <<>> \/ \E o \in 1..Len(fields[i].options.items) :
                                fields[i].options.items[o] = s)
    /\ s # Shown(Get(values, fields[i].id))
    /\ handleChange(fields[i].id, Str(s))

\* const table = Array.isArray(value) ? [...value] : []  (holes become undefined)
Spread(value) ==
    IF value.k = "array"
    THEN [r \in 1..Len(value.rows) |->
            IF value.rows[r].k = "hole" THEN RowUndefined ELSE value.rows[r]]
    ELSE <<>>

\* { ...table[rowIdx], [colId]: cellValue }
WithCell(table, rowIdx, colId, cellValue) ==
    LET old == IF rowIdx <= Len(table) /\ table[rowIdx].k = "object"
               THEN table[rowIdx].cells ELSE NoCells
    IN  RowObject([c \in DOMAIN old \cup {colId} |-> IF c = colId THEN cellValue ELSE old[c]])

\* table[rowIdx] = ... : an index past the end leaves holes before it
AssignRow(table, rowIdx, row) ==
    [r \in 1..(IF rowIdx > Len(table) THEN rowIdx ELSE Len(table)) |->
        IF r = rowIdx THEN row ELSE IF r <= Len(table) THEN table[r] ELSE RowHole]

\* the displayed rows of a table: the row labels (static) or the value's rows
DisplayedRows(field, value) ==
    IF field.mode = "static" THEN 1..Len(field.rowLabels.items)
    ELSE IF field.mode = "dynamic" /\ value.k = "array" THEN 1..Len(value.rows)
    ELSE {}

\* value?.[rowIdx]?.[col.id] || ""
ShownCell(value, rowIdx, colId) ==
    IF value.k = "array" /\ rowIdx <= Len(value.rows) /\ value.rows[rowIdx].k = "object"
    THEN Shown(Cell(value.rows[rowIdx], colId))
    ELSE <<>>

\* handleCellChange(rowIdx, colId, cellValue) from the input or select of a cell;
\* rowIdx is 1-based here
handleCellChange(i, rowIdx, c, s) ==
    /\ PreviewLive
    /\ i \in 1..Len(fields)
    /\ fields[i].type = "table"
    /\ Rendered(fields[i].id)
    /\ c \in 1..Len(fields[i].columns)
    /\ LET value == Get(values, fields[i].id)
           col == fields[i].columns[c]
       IN  /\ rowIdx \in DisplayedRows(fields[i], value)
           /\ \/ col.type = "text"
              \/ s = <<>>
              \/ col.options.defined /\ Includes(col.options.items, Str(s))
           /\ s # ShownCell(value, rowIdx, col.id)
           /\ handleChange(fields[i].id,
                  Arr(AssignRow(Spread(value), rowIdx,
                                WithCell(Spread(value), rowIdx, col.id, Str(s)))))

\* handleAddRow: onChange([...table, {}])
handleAddRow(i) ==
    /\ PreviewLive
    /\ i \in 1..Len(fields)
    /\ fields[i].type = "table"
    /\ fields[i].mode = "dynamic"
    /\ Rendered(fields[i].id)
    /\ LET value == Get(values, fields[i].id) IN
           /\ Len(Spread(value)) < MaxRows
           /\ handleChange(fields[i].id, Arr(Append(Spread(value), RowObject(NoCells))))

\* forms opened in the preview: a dropdown that may branch to either of two
\* fields, each a required text field with a minimum length or a one-column table
PreviewProbes(i) ==
    { TextField(FieldIds[i], Labels[i], TRUE, 2, 0),
      TableField(FieldIds[i], Labels[i], <<RequiredTextColumn>>, "dynamic", NoRowLabels),
      TableField(FieldIds[i], Labels[i], <<RequiredTextColumn>>, "static",
                 RowLabels([r \in 1..MaxRows |-> RowLabel(r)])) }

\* what may be typed into a text input
Typed == {Empty, SAB}

\* FormPreview as mounted: useState({}), useState([])
InitPreview ==
    /\ \E c \in {NoCondition, Condition(OptA :> "f2" @@ OptB :> "f3")} :
       \E p2 \in PreviewProbes(2) : \E p3 \in PreviewProbes(3) :
          fields = <<DropdownField("f1", Labels[1], <<OptA, OptB>>, FALSE, c), p2, p3>>
    /\ values = [id \in {} |-> Undefined]
    /\ visibleFieldIds = <<>>
    /\ result = Returned(<<>>)
    /\ pc = "input"
    /\ errors = <<>>
    /\ posts = <<>>
    /\ NoBuilder
    /\ PreviewOpen
    /\ EmptyStore

NextPreview ==
    \/ Render
    \/ \E i \in 1..3 : \E s \in Typed \cup {OptA, OptB} : ChangeInput(i, s)
    \/ \E i \in 1..3 : \E rowIdx \in 1..MaxRows : \E s \in Typed :
          handleCellChange(i, rowIdx, 1, s)
    \/ \E i \in 1..3 : handleAddRow(i)
    \/ HandleSubmit
    \/ \E outcome \in {"served", "gone", "failed"} : ReceiveReply(outcome)

SpecPreview == InitPreview /\ [][NextPreview]_vars

\* ------------------------------------------------------------------------
\* The server: forms and responses behind the HTTP endpoints
\* ------------------------------------------------------------------------
MaxForms == 2

MaxResponses == 2

\* ids a request may name: those uuidv4 has generated or will generate
FormIds == 1..MaxForms

\* schemas a client may POST or PUT
StoreSchemas ==
    { <<>>,
      <<TextField("f1", Labels[1], TRUE, 0, 0)>>,
      <<TableField("f1", Labels[1],
                   <<TableColumn("c1", "text", ColLabel1, TRUE, 2, 0, NoOptions)>>,
                   "dynamic", NoRowLabels)>> }

\* request bodies of POST and PUT on forms: a form without an id (0) or with one
StoreForms ==
    { [id |-> b, title |-> Title, fields |-> schema] :
        b \in {0} \cup FormIds, schema \in StoreSchemas }

\* mutant: an id in the request body wins over the generated one
WithId_KeepBody(body, id) == IF body.id # 0 THEN body ELSE [body EXCEPT !.id = id]

\* const form = { ...req.body, id }
WithId(body, id) == [body EXCEPT !.id = id]

\* request bodies of a submission, as parsed by express.json()
StoreBodies ==
    { [id \in {} |-> Undefined],
      "f1" :> Str(SA),
      "f1" :> Arr(<<RowObject("c1" :> Str(SA))>>),
      "f1" :> Arr(<<RowNull>>) }

\* a reply to the request op on form id (0 when the request names none)
Reply(op, id, status, body) == [op |-> op, id |-> id, status |-> status, body |-> body]

\* the rows of responses with this form_id, in insertion order
RECURSIVE ResponsesOf(_, _)
ResponsesOf(rows, id) ==
    IF rows = <<>> THEN <<>>
    ELSE (IF Head(rows).form_id = id THEN <<Head(rows)>> ELSE <<>>)
         \o ResponsesOf(Tail(rows), id)

\* the rows of responses with another form_id
RECURSIVE ResponsesNotOf(_, _)
ResponsesNotOf(rows, id) ==
    IF rows = <<>> THEN <<>>
    ELSE (IF Head(rows).form_id # id THEN <<Head(rows)>> ELSE <<>>)
         \o ResponsesNotOf(Tail(rows), id)

\* app.get("/api/forms")
ListForms ==
    /\ reply' = Reply("GET forms", 0, 200,
                      [i \in 1..Cardinality(DOMAIN forms) |-> 0])
    /\ UNCHANGED <<forms, responses, nextFormId, nextResponseId>>
    /\ UNCHANGED previewVars
    /\ UNCHANGED builderVars
    /\ UNCHANGED appVars

\* app.post("/api/forms"): const id = uuidv4(); const form = { ...req.body, id }
PostForm(body) ==
    /\ nextFormId <= MaxForms
    /\ forms' = (nextFormId :> WithId(body, nextFormId)) @@ forms
    /\ nextFormId' = nextFormId + 1
    /\ reply' = Reply("POST forms", 0, 201, <<nextFormId>>)
    /\ UNCHANGED <<responses, nextResponseId>>

\* POST /api/forms from a client other than the App
CreateForm(body) ==
    /\ PostForm(body)
    /\ UNCHANGED previewVars
    /\ UNCHANGED builderVars
    /\ UNCHANGED appVars

\* app.get("/api/forms/:id")
GetForm(id) ==
    /\ reply' = IF id \in DOMAIN forms
                THEN Reply("GET form", id, 200, <<id>>)
                ELSE Reply("GET form", id, 404, <<>>)
    /\ UNCHANGED <<forms, responses, nextFormId, nextResponseId>>
    /\ UNCHANGED previewVars
    /\ UNCHANGED builderVars
    /\ UNCHANGED appVars

\* app.put("/api/forms/:id"): UPDATE forms SET data = ? WHERE id = ?
PutForm(id, body) ==
    /\ forms' = IF id \in DOMAIN forms
                THEN [forms EXCEPT ![id] = WithId(body, id)]
                ELSE forms
    /\ reply' = Reply("PUT form", id, 200, <<id>>)
    /\ UNCHANGED <<responses, nextFormId, nextResponseId>>

\* PUT /api/forms/:id from a client other than the App
UpdateForm(id, body) ==
    /\ PutForm(id, body)
    /\ UNCHANGED previewVars
    /\ UNCHANGED builderVars
    /\ UNCHANGED appVars

\* app.delete("/api/forms/:id"): DELETE FROM forms WHERE id = ?
DeleteForm(id) ==
    /\ forms' = [f \in DOMAIN forms \ {id} |-> forms[f]]
    /\ reply' = Reply("DELETE form", id, 204, <<>>)
    /\ UNCHANGED <<responses, nextFormId, nextResponseId>>
    /\ UNCHANGED previewVars
    /\ UNCHANGED builderVars
    /\ UNCHANGED appVars

\* app.post("/api/forms/:id/responses")
SubmitResponse(id, data) ==
    /\ IF id \notin DOMAIN forms
       THEN /\ reply' = Reply("POST responses", id, 404, <<>>)
            /\ UNCHANGED <<responses, nextResponseId>>
       ELSE LET serverErrors == validateResponse(forms[id].fields, data) IN
            IF serverErrors.threw
            THEN \* the TypeError is caught by the handler's catch
                 /\ reply' = Reply("POST responses", id, 500, <<>>)
                 /\ UNCHANGED <<responses, nextResponseId>>
            ELSE IF serverErrors.errors # <<>>
            THEN /\ reply' = Reply("POST responses", id, 400, serverErrors.errors)
                 /\ UNCHANGED <<responses, nextResponseId>>
            ELSE /\ nextResponseId <= MaxResponses
                 /\ responses' = Append(responses,
                        [id |-> nextResponseId, form_id |-> id, data |-> data])
                 /\ nextResponseId' = nextResponseId + 1
                 /\ reply' = Reply("POST responses", id, 201, <<>>)
    /\ UNCHANGED <<forms, nextFormId>>
    /\ UNCHANGED previewVars
    /\ UNCHANGED builderVars
    /\ UNCHANGED appVars

\* app.get("/api/forms/:id/responses")
ListResponses(id) ==
    /\ reply' = Reply("GET responses", id, 200,
                      [i \in 1..Len(ResponsesOf(responses, id)) |->
                          ResponsesOf(responses, id)[i].data])
    /\ UNCHANGED <<forms, responses, nextFormId, nextResponseId>>
    /\ UNCHANGED previewVars
    /\ UNCHANGED builderVars
    /\ UNCHANGED appVars

\* app.delete("/api/forms/:id/responses")
DeleteResponses(id) ==
    /\ responses' = ResponsesNotOf(responses, id)
    /\ reply' = Reply("DELETE responses", id, 204, <<>>)
    /\ UNCHANGED <<forms, nextFormId, nextResponseId>>
    /\ UNCHANGED previewVars
    /\ UNCHANGED builderVars
    /\ UNCHANGED appVars

InitStore == NoPreview /\ NoBuilder /\ NoApp /\ EmptyStore

NextStore ==
    \/ ListForms
    \/ \E body \in StoreForms : CreateForm(body)
    \/ \E id \in FormIds : GetForm(id)
    \/ \E id \in FormIds : \E body \in StoreForms : UpdateForm(id, body)
    \/ \E id \in FormIds : DeleteForm(id)
    \/ \E id \in FormIds : \E data \in StoreBodies : SubmitResponse(id, data)
    \/ \E id \in FormIds : ListResponses(id)
    \/ \E id \in FormIds : DeleteResponses(id)

Spec == InitStore /\ [][NextStore]_vars

\* ------------------------------------------------------------------------
\* Saving from the builder: validateForm, FormBuilder.handleSave and
\* App.handleSave with the server's replies
\* ------------------------------------------------------------------------
MaxSaves == 2

\* one message of validateForm
FormMessage(rule, label, col, n) == [rule |-> rule, label |-> label, col |-> col, n |-> n]

\* !s || !s.trim()
IsBlank(s) == Trim(s) = <<>>

RECURSIVE Flatten(_)
Flatten(ss) == IF ss = <<>> THEN <<>> ELSE Head(ss) \o Flatten(Tail(ss))

\* options.forEach((opt, i) => { if (!opt || !opt.trim()) errors.push(...) })
optionErrors(rule, label, col, options) ==
    Flatten([i \in 1..Len(options) |->
                IF IsBlank(options[i]) THEN <<FormMessage(rule, label, col, i)>> ELSE <<>>])

\* the body of t.columns.forEach((col, i) => ...)
columnErrors(t, col, i) ==
    (IF IsBlank(col.label) THEN <<FormMessage("column label", t.label, <<>>, i)>> ELSE <<>>)
    \o (IF col.type # "dropdown" THEN <<>>
        ELSE IF ~col.options.defined \/ Len(col.options.items) = 0
        THEN <<FormMessage("column needs option", t.label, col.label, 0)>>
        ELSE optionErrors("column option", t.label, col.label, col.options.items))

\* the body of fields.forEach((field, idx) => ...)
fieldErrors(field, idx) ==
    (IF IsBlank(field.label) THEN <<FormMessage("field label", <<>>, <<>>, idx)>> ELSE <<>>)
    \o (IF field.type # "dropdown" THEN <<>>
        ELSE IF ~field.options.defined \/ Len(field.options.items) = 0
        THEN <<FormMessage("needs option", field.label, <<>>, 0)>>
        ELSE optionErrors("option", field.label, <<>>, field.options.items))
    \o (IF field.type # "table" THEN <<>>
        ELSE (IF Len(field.columns) = 0
              THEN <<FormMessage("needs column", field.label, <<>>, 0)>>
              ELSE Flatten([i \in 1..Len(field.columns) |->
                              columnErrors(field, field.columns[i], i)]))
             \o (IF field.mode = "static" /\ field.rowLabels.defined
                 THEN optionErrors("row label", field.label, <<>>, field.rowLabels.items)
                 ELSE <<>>))

\* mutant: only the title is looked at
validateForm_TitleOnly(t, fs) ==
    IF IsBlank(t) THEN <<FormMessage("title", <<>>, <<>>, 0)>> ELSE <<>>

\* validateForm(title, fields)
validateForm(t, fs) ==
    (IF IsBlank(t) THEN <<FormMessage("title", <<>>, <<>>, 0)>> ELSE <<>>)
    \o Flatten([idx \in 1..Len(fs) |-> fieldErrors(fs[idx], idx)])

\* isFormValid of FormBuilder
isFormValid(fs) ==
    Len(fs) > 0 /\ \A i \in 1..Len(fs) : fs[i].type # "table" \/ Len(fs[i].columns) > 0

\* FormBuilder is mounted by App
BuilderMounted == appMode = "builder" /\ pc = "editing"

\* a save request as sent by fetch: JSON.stringify(form) holds title and fields
SaveRequest(method, id, body) ==
    [method |-> method, id |-> id, body |-> body, state |-> "sent", saved |-> {}]

\* the Save button (disabled={!isFormValid || errors.length > 0}), handleSave of
\* FormBuilder and, through onSave, handleSave of App up to its fetch
handleSave ==
    /\ BuilderMounted
    /\ isFormValid(fields) /\ Len(validateForm(title, fields)) = 0
    /\ Len(requests) < MaxSaves
    /\ IF Len(validateForm(title, fields)) > 0
       THEN requests' = requests
       ELSE LET body == [id |-> 0, title |-> title, fields |-> fields] IN
            requests' = Append(requests,
                IF \E f \in editForm : f.id # 0
                THEN SaveRequest("PUT", (CHOOSE f \in editForm : TRUE).id, body)
                ELSE SaveRequest("POST", 0, body))
    /\ UNCHANGED <<appMode, form, editForm, showWarning>>
    /\ UNCHANGED previewVars
    /\ UNCHANGED builderVars
    /\ UNCHANGED storeVars

\* the server handles one of the save requests in flight and replies with the form
ServeSave(k) ==
    /\ k \in 1..Len(requests)
    /\ requests[k].state = "sent"
    /\ IF requests[k].method = "POST"
       THEN /\ PostForm(requests[k].body)
            /\ requests' = [requests EXCEPT ![k].state = "answered",
                                            ![k].saved = {WithId(requests[k].body, nextFormId)}]
       ELSE /\ PutForm(requests[k].id, requests[k].body)
            /\ requests' = [requests EXCEPT ![k].state = "answered",
                                            ![k].saved = {WithId(requests[k].body, requests[k].id)}]
    /\ UNCHANGED <<appMode, form, editForm, showWarning>>
    /\ UNCHANGED previewVars
    /\ UNCHANGED builderVars

\* the rest of App.handleSave: setForm(savedForm); setEditForm(savedForm).  A
\* mounted FormBuilder then runs its effect on initialForm; in mode preview or
\* responses the page is rendered on the new form.
SaveReturns(k) ==
    /\ k \in 1..Len(requests)
    /\ requests[k].state = "answered"
    /\ form' = requests[k].saved
    /\ editForm' = requests[k].saved
    /\ requests' = RemoveAt(requests, k)
    /\ LET savedForm == CHOOSE f \in requests[k].saved : TRUE IN
       CASE BuilderMounted ->
                title' = savedForm.title /\ fields' = savedForm.fields /\ pc' = pc
         [] appMode = "preview" ->
                /\ title' = title
                /\ fields' = savedForm.fields
                /\ pc' = IF pc = "nothing" THEN "input" ELSE pc
         [] appMode = "responses" ->
                title' = title /\ fields' = fields /\ pc' = "responses"
         [] OTHER -> UNCHANGED <<title, fields, pc>>
    /\ UNCHANGED <<appMode, showWarning, nextFieldId>>
    /\ UNCHANGED <<values, visibleFieldIds, result, errors, posts>>
    /\ UNCHANGED storeVars

\* ------------------------------------------------------------------------
\* Navigation of App between its pages
\* ------------------------------------------------------------------------
\* the page App renders: FormBuilder with initialForm = editForm || undefined,
\* FormPreview or ResponsesPage on form, SavedForms, or nothing at all
Mount(newMode, newForm, newEditForm) ==
    /\ pc' = CASE newMode = "builder" -> "editing"
               [] newMode = "saved" -> "list"
               [] newForm = {} -> "nothing"
               [] newMode = "preview" -> "input"
               [] OTHER -> "responses"
    /\ title' = IF newMode = "builder" /\ newEditForm # {}
                THEN (CHOOSE f \in newEditForm : TRUE).title ELSE <<>>
    /\ fields' = IF newMode = "builder" /\ newEditForm # {}
                 THEN (CHOOSE f \in newEditForm : TRUE).fields
                 ELSE IF newMode = "preview" /\ newForm # {}
                 THEN (CHOOSE f \in newForm : TRUE).fields
                 ELSE <<>>
    /\ values' = [id \in {} |-> Undefined]
    /\ visibleFieldIds' = <<>>
    /\ result' = Returned(<<>>)
    /\ errors' = <<>>
    /\ posts' = <<>>

\* navigateTo(newMode, formToEdit): setEditForm(formToEdit); setForm(null); setMode(newMode)
navigateTo(newMode, formToEdit) ==
    /\ editForm' = formToEdit
    /\ form' = {}
    /\ appMode' = newMode
    /\ Mount(newMode, {}, formToEdit)
    /\ UNCHANGED <<nextFieldId, requests>>
    /\ UNCHANGED storeVars

\* onCreateNew of SavedForms
onCreateNew ==
    /\ appMode = "saved"
    /\ navigateTo("builder", {})
    /\ UNCHANGED showWarning

\* onEdit of SavedForms, with a form the server holds
onEdit(id) ==
    /\ appMode = "saved"
    /\ id \in DOMAIN forms
    /\ navigateTo("builder", {forms[id]})
    /\ UNCHANGED showWarning

\* the Preview and Responses buttons of the builder page:
\* setForm(editForm); setMode("preview" | "responses")
ShowPage(newMode) ==
    /\ appMode = "builder"
    /\ form' = editForm
    /\ appMode' = newMode
    /\ Mount(newMode, editForm, editForm)
    /\ UNCHANGED <<editForm, showWarning, requests, nextFieldId>>
    /\ UNCHANGED storeVars

\* onReturn of FormPreview and ResponsesPage: setMode("builder")
onReturn ==
    /\ appMode \in {"preview", "responses"}
    /\ form # {}
    /\ appMode' = "builder"
    /\ Mount("builder", form, editForm)
    /\ UNCHANGED <<form, editForm, showWarning, requests, nextFieldId>>
    /\ UNCHANGED storeVars

\* the Return to Saved Forms button and the No button: setShowWarning(...)
setShowWarning(shown) ==
    /\ appMode = "builder"
    /\ showWarning # shown
    /\ shown \/ showWarning
    /\ showWarning' = shown
    /\ UNCHANGED <<appMode, form, editForm, requests>>
    /\ UNCHANGED previewVars
    /\ UNCHANGED builderVars
    /\ UNCHANGED storeVars

\* confirmReturn: setShowWarning(false); navigateTo("saved")
confirmReturn ==
    /\ appMode = "builder"
    /\ showWarning
    /\ showWarning' = FALSE
    /\ navigateTo("saved", {})

\* onChange of the title input of FormBuilder
setTitle(t) ==
    /\ BuilderMounted
    /\ t # title
    /\ title' = t
    /\ UNCHANGED nextFieldId
    /\ UNCHANGED previewVars
    /\ UNCHANGED appVars
    /\ UNCHANGED storeVars

\* App as mounted, the server on empty tables
InitApp ==
    /\ fields = <<>>
    /\ values = [id \in {} |-> Undefined]
    /\ visibleFieldIds = <<>>
    /\ result = Returned(<<>>)
    /\ pc = "list"
    /\ errors = <<>>
    /\ posts = <<>>
    /\ NoBuilder
    /\ NoApp
    /\ EmptyStore

NextApp ==
    \/ onCreateNew
    \/ \E id \in FormIds : onEdit(id)
    \/ \E newMode \in {"preview", "responses"} : ShowPage(newMode)
    \/ onReturn
    \/ \E shown \in BOOLEAN : setShowWarning(shown)
    \/ confirmReturn
    \/ \E t \in {Empty, Title} : setTitle(t)
    \/ addField("text")
    \/ handleSave
    \/ \E k \in 1..MaxSaves : ServeSave(k)
    \/ \E k \in 1..MaxSaves : SaveReturns(k)

SpecApp == InitApp /\ [][NextApp]_vars

\* what the builder may hold after editing a new form: the fields that
\* createField and the editors produce, labels and options retyped
SaveColumns ==
    { <<>> }
    \cup { <<TableColumn("c1", "text", l, FALSE, 0, 0, NoOptions)>> : l \in {ColumnLabel, Blank} }
    \cup { <<TableColumn("c1", "dropdown", ColumnLabel, FALSE, 0, 0, o)>> :
             o \in {NoOptions, Options(<<Option1>>), Options(<<Empty>>)} }

SaveRowLabels ==
    { <<"dynamic", NoRowLabels>>, <<"static", RowLabels(<<RowLabel(1)>>)>>,
      <<"static", RowLabels(<<RowLabel(1), Empty>>)>> }

SaveProbes(i) ==
    { DropdownField(FieldIds[i], l, o, FALSE, NoCondition) :
        l \in {Untitled, Blank}, o \in {<<Option1>>, <<Empty>>, <<Option1, Blank>>} }
    \cup { TableField(FieldIds[i], l, c, m[1], m[2]) :
             l \in {UntitledTable, Blank}, c \in SaveColumns, m \in SaveRowLabels }

\* the builder opened with Create New Form and edited, nothing saved yet: text
\* fields and at most one dropdown or table (at position p; none when p = 0)
InitSave ==
    /\ title \in {Empty, Blank, Title}
    /\ \E n \in 0..MaxFields : \E p \in 0..n :
       \E texts \in [1..n -> BOOLEAN] : \E probe \in SaveProbes(IF p = 0 THEN 1 ELSE p) :
          fields = [i \in 1..n |->
                      IF i = p THEN probe
                      ELSE TextField(FieldIds[i], IF texts[i] THEN Untitled ELSE Blank,
                                     FALSE, 0, 0)]
    /\ values = [id \in {} |-> Undefined]
    /\ visibleFieldIds = <<>>
    /\ result = Returned(<<>>)
    /\ pc = "editing"
    /\ errors = <<>>
    /\ posts = <<>>
    /\ nextFieldId = 1
    /\ BuilderOpen
    /\ EmptyStore

NextSave ==
    \/ handleSave
    \/ \E k \in 1..MaxSaves : ServeSave(k)
    \/ \E k \in 1..MaxSaves : SaveReturns(k)

SpecSave == InitSave /\ [][NextSave]_vars


\* ------------------------------------------------------------------------
\* Vocabulary of the claims about the resolver
\* ------------------------------------------------------------------------
\* positions of the dropdowns that carry a condition map
Branching(fs) == { i \in 1..Len(fs) : fs[i].type = "dropdown" /\ fs[i].condition.defined }

\* position of the branching dropdown: the first of them (0 when there is none)
BranchIdx(fs) ==
    IF Branching(fs) = {} THEN 0
    ELSE CHOOSE i \in Branching(fs) : \A j \in Branching(fs) : i <= j

\* every non-empty condition target of every dropdown
ConditionTargets(fs) ==
    UNION { { fs[i].condition.map[o] : o \in DOMAIN fs[i].condition.map }
            : i \in Branching(fs) } \ {""}

\* position of the field with this id, 0 when the schema has none
PositionOf(fs, id) ==
    IF \E i \in 1..Len(fs) : fs[i].id = id
    THEN CHOOSE i \in 1..Len(fs) : fs[i].id = id
    ELSE 0

\* the target the branching dropdown's selection maps to, "" when none
SelectedTarget(fs, vals) ==
    LET b == BranchIdx(fs)
        v == IF b = 0 THEN Undefined ELSE Get(vals, fs[b].id)
    IN  IF b # 0 /\ v.k = "string" /\ v.s # <<>> /\ v.s \in DOMAIN fs[b].condition.map
        THEN fs[b].condition.map[v.s]
        ELSE ""

NotATarget(fs, id) == id \notin ConditionTargets(fs)

\* ids, in schema order, of the fields after position k that are no condition target
IdsAfterNotTargets(fs, k) ==
    LET after == [i \in 1..(Len(fs) - k) |-> fs[k + i].id]
        Keep(id) == NotATarget(fs, id)
    IN  SelectSeq(after, Keep)

AllIds(fs) == [i \in 1..Len(fs) |-> fs[i].id]

\* the resolver ran on a schema in which exactly one dropdown carries a condition
\* map, one that names a target, and that dropdown has no selection
C1_Case ==
    /\ pc = "rendered"
    /\ Cardinality(Branching(fields)) = 1
    /\ ConditionTargets(fields) # {}
    /\ ~Truthy(Get(values, fields[BranchIdx(fields)].id))

\* every condition target is "" (None) or names a field positioned after its
\* dropdown: the schemas the dropdown editor offers
TargetsFollow(fs) ==
    \A i \in Branching(fs) : \A o \in DOMAIN fs[i].condition.map :
        fs[i].condition.map[o] = "" \/ PositionOf(fs, fs[i].condition.map[o]) > i

C2_JumpThenNonTargets ==
    (pc = "rendered" /\ SelectedTarget(fields, values) # ""
        /\ PositionOf(fields, SelectedTarget(fields, values)) > BranchIdx(fields))
    => visibleFieldIds =
         <<fields[BranchIdx(fields)].id, SelectedTarget(fields, values)>>
         \o IdsAfterNotTargets(fields, PositionOf(fields, SelectedTarget(fields, values)))

\* C2: a jump to the next field, which is followed by a suppressed target
C2_Witness ==
    /\ pc = "rendered"
    /\ SelectedTarget(fields, values) # ""
    /\ PositionOf(fields, SelectedTarget(fields, values)) = BranchIdx(fields) + 1
    /\ Len(fields) > BranchIdx(fields) + 1
    /\ Len(visibleFieldIds) = 2

\* C3: when no dropdown carries a non-empty condition map (absent, or the empty
\* map on every dropdown), resolve returns all field ids once, in schema order.
C3_AllFieldsWithoutCondition ==
    (pc = "rendered"
        /\ \A i \in 1..Len(fields) : DOMAIN fields[i].condition.map = {})
    => visibleFieldIds = AllIds(fields)

\* the schema with the condition map of the dropdown at position j replaced
WithCondition(fs, j, c) == [fs EXCEPT ![j].condition = c]

\* the dropdowns positioned after the branching dropdown
LaterDropdowns(fs) ==
    { j \in 1..Len(fs) : fs[j].type = "dropdown" /\ BranchIdx(fs) # 0 /\ j > BranchIdx(fs) }

\* the first dropdown that carries a condition map names a target in it
BranchNamesTarget(fs) ==
    /\ BranchIdx(fs) # 0
    /\ \E o \in DOMAIN fs[BranchIdx(fs)].condition.map :
          fs[BranchIdx(fs)].condition.map[o] # ""

\* C9 as stated (checked on schemas whose targets follow their dropdown):
\* changing, emptying or removing the condition map of a dropdown after the first
\* one that carries a condition map, or changing that later dropdown's selected
\* value, leaves resolve's output unchanged.
C9_LaterDropdownIgnored ==
    (pc = "rendered" /\ BranchNamesTarget(fields) /\ TargetsFollow(fields)) =>
        \A j \in LaterDropdowns(fields) : \A c \in ResolverConditions : \A v \in Selections :
            TargetsFollow(WithCondition(fields, j, c))
            => getVisibleFieldIds(WithCondition(fields, j, c),
                               [values EXCEPT ![fields[j].id] = v]) = visibleFieldIds

\* C9 as amended: only the first dropdown that carries a condition map selects the
\* branch. Changing the selected value of a later dropdown leaves resolve's output
\* unchanged, and changing, emptying or removing a later dropdown's condition map
\* leaves it unchanged whenever the set of condition targets of all dropdowns
\* stays the same: a later map acts only by the fields it names as targets.
C9_LaterDropdownOnlyAddsTargets ==
    (pc = "rendered" /\ BranchNamesTarget(fields)) =>
        \A j \in LaterDropdowns(fields) : \A c \in ResolverConditions :
            ConditionTargets(WithCondition(fields, j, c)) = ConditionTargets(fields)
            => \A v \in Selections :
                  getVisibleFieldIds(WithCondition(fields, j, c),
                                     [values EXCEPT ![fields[j].id] = v]) = visibleFieldIds

\* C9: a later dropdown carries a map to a field that the resolver hides, while the
\* branching dropdown has a selection
C9_Witness ==
    /\ pc = "rendered"
    /\ BranchNamesTarget(fields)
    /\ \E j \in LaterDropdowns(fields) :
          /\ j \in Branching(fields)
          /\ \E o \in DOMAIN fields[j].condition.map :
                /\ PositionOf(fields, fields[j].condition.map[o]) > j
                /\ \A i \in 1..Len(visibleFieldIds) :
                      visibleFieldIds[i] # fields[j].condition.map[o]
          /\ Truthy(Get(values, fields[j].id))

\* ------------------------------------------------------------------------
\* Vocabulary of the claims about the validator
\* ------------------------------------------------------------------------
Validated == pc \in {"validated", "submitted"}

VisibleSet == { visibleFieldIds[i] : i \in 1..Len(visibleFieldIds) }

Messages == { result.errors[i] : i \in 1..Len(result.errors) }

\* the label of the field with this id (<<>> when the schema has none)
LabelOf(fs, id) == IF PositionOf(fs, id) = 0 THEN <<>> ELSE fs[PositionOf(fs, id)].label

\* the field's own rules fail for the value it holds (ignoring visibility and jumps)
BlankValue(v) == v.k = "undefined" \/ (v.k = "string" /\ Trim(v.s) = <<>>)

\* C4: every message validate returns is about a field whose id is in visibleIds;
\* a field that is not in visibleIds contributes no message, whatever its kind,
\* rules and value.
C4_OnlyVisibleFlagged ==
    (Validated /\ ~result.threw) =>
        \A m \in Messages :
            \E i \in 1..Len(fields) : fields[i].id \in VisibleSet /\ fields[i].label = m.field

\* C4: validate ran with a required, unset text field left out of visibleIds and
\* returned no message at all
C4_Witness ==
    /\ pc = "validated"
    /\ ~result.threw
    /\ result.errors = <<>>
    /\ \E i \in 1..Len(fields) :
          /\ fields[i].id \notin VisibleSet
          /\ fields[i].type = "text" /\ fields[i].required
          /\ Get(values, fields[i].id) = Undefined
    /\ \E i \in 1..Len(fields) :
          /\ fields[i].id \notin VisibleSet
          /\ fields[i].type = "table"
          /\ Get(values, fields[i].id).k = "array"
          /\ Len(Get(values, fields[i].id).rows) = 2

\* the required rule of the field at position i fails on its own terms: a required
\* text or dropdown without a value, or a row object of a table with a required
\* column whose cell is blank
RequiredFails(fs, vals, i) ==
    LET f == fs[i]
        v == Get(vals, f.id)
    IN  \/ f.type = "text" /\ f.required /\ BlankValue(v)
        \/ f.type = "dropdown" /\ f.required /\ ~Truthy(v)
        \/ /\ f.type = "table" /\ v.k = "array"
           /\ \E r \in 1..Len(v.rows) : \E c \in 1..Len(f.columns) :
                 /\ v.rows[r].k = "object"
                 /\ f.columns[c].required
                 /\ IF f.columns[c].type = "text"
                    THEN BlankValue(Cell(v.rows[r], f.columns[c].id))
                    ELSE ~Truthy(Cell(v.rows[r], f.columns[c].id))

IsRequiredMessage(m) == m.rule = " is required."

\* C5: with a jump target T active and visibleIds the resolver's output, validate
\* produces an "is required." message only for T (or for cells of T): the required
\* flags of every other visible field, and of its columns, count as false, and T
\* keeps its own required flag.
C5_RequiredOnlyForJumpTarget ==
    (pc = "submitted" /\ ~result.threw /\ SelectedTarget(fields, values) # "") =>
        LET t == SelectedTarget(fields, values) IN
        /\ \A m \in Messages : IsRequiredMessage(m) => m.field = LabelOf(fields, t)
        /\ (PositionOf(fields, t) # 0 /\ RequiredFails(fields, values, PositionOf(fields, t)))
              => \E m \in Messages : IsRequiredMessage(m) /\ m.field = LabelOf(fields, t)

\* C5: a jump target whose required rule fails and is reported, beside a visible
\* field whose required rule fails and is not
C5_Witness ==
    /\ pc = "submitted"
    /\ ~result.threw
    /\ SelectedTarget(fields, values) = "f2"
    /\ RequiredFails(fields, values, 2)
    /\ RequiredFails(fields, values, 3)
    /\ "f3" \in VisibleSet
    /\ Cardinality({ m \in Messages : IsRequiredMessage(m) }) = 1

\* Scenario A: a dropdown D without required whose selection maps to T, a required
\* text Q1 and the required text T
ScenarioShape ==
    /\ Len(fields) = 3
    /\ fields[1].type = "dropdown" /\ ~fields[1].required
    /\ fields[1].condition = Condition(OptA :> "f3")
    /\ fields[2] = TextField("f2", Labels[2], TRUE, 0, 0)
    /\ fields[3] = TextField("f3", Labels[3], TRUE, 0, 0)

\* C6: in Scenario A with D's selected option mapping to T, resolve returns [D, T]
\* and validate on that list returns no message when T has a non-blank value and
\* exactly ["<T label> is required."] otherwise, whatever the value of Q1.
C6_ScenarioA ==
    (pc = "submitted" /\ ScenarioShape /\ Get(values, "f1") = Str(OptA)) =>
        /\ visibleFieldIds = <<"f1", "f3">>
        /\ result = Returned(IF BlankValue(Get(values, "f3")) THEN
                                <<[inTable |-> FALSE, col |-> <<>>, field |-> Labels[3],
                                   row |-> 0, rule |-> " is required.", n |-> 0]>>
                             ELSE <<>>)

\* C6: Scenario A ran with Q1 and T both unset and exactly one message came back
C6_Witness ==
    /\ pc = "submitted" /\ ScenarioShape /\ Get(values, "f1") = Str(OptA)
    /\ BlankValue(Get(values, "f2"))
    /\ BlankValue(Get(values, "f3"))
    /\ Len(result.errors) = 1

C8_NeverRaises == Validated => ~result.threw

\* ------------------------------------------------------------------------
\* Claims about the store
\* ------------------------------------------------------------------------
\* C10: deleting a form cascades to its responses: every stored response refers
\* to a stored form, and listing the responses of a form that is not stored
\* returns the empty list.
C10_DeleteCascades ==
    /\ \A i \in 1..Len(responses) : responses[i].form_id \in DOMAIN forms
    /\ (reply.op = "GET responses" /\ reply.id \notin DOMAIN forms) => reply.body = <<>>

\* the rules of a text field or text column hold for the value v
TextRulesHold(required, minLength, maxLength, v) ==
    /\ required => (v.k = "string" /\ Trim(v.s) # <<>>)
    /\ (minLength # 0 /\ v.k = "string") => Len(v.s) >= minLength
    /\ (maxLength # 0 /\ v.k = "string") => Len(v.s) <= maxLength

\* the rules of a dropdown field or dropdown column hold for the value v
DropdownRulesHold(required, options, v) ==
    /\ required => (v.k = "string" /\ v.s # <<>>)
    /\ (v.k = "string" /\ v.s # <<>> /\ options.defined)
          => \E i \in 1..Len(options.items) : options.items[i] = v.s

\* every required, minLength, maxLength and option rule of the schema holds for
\* the response: for the top-level fields and for every cell of every table row
SatisfiesRules(fs, data) ==
    \A i \in 1..Len(fs) :
        LET f == fs[i]
            v == Get(data, f.id)
        IN  CASE f.type = "text" ->
                    TextRulesHold(f.required, f.minLength, f.maxLength, v)
              [] f.type = "dropdown" ->
                    DropdownRulesHold(f.required, f.options, v)
              [] OTHER ->
                    v.k = "array" =>
                        \A r \in 1..Len(v.rows) : \A c \in 1..Len(f.columns) :
                            /\ v.rows[r].k = "object"
                            /\ IF f.columns[c].type = "text"
                               THEN TextRulesHold(f.columns[c].required,
                                                  f.columns[c].minLength,
                                                  f.columns[c].maxLength,
                                                  Cell(v.rows[r], f.columns[c].id))
                               ELSE DropdownRulesHold(f.columns[c].required,
                                                      f.columns[c].options,
                                                      Cell(v.rows[r], f.columns[c].id))

\* C11: every response the store takes in satisfies, at that moment, all required,
\* minLength, maxLength and option rules of its form's stored schema (top-level
\* fields and table cells), and a submission to an unknown form id is answered
\* 404 and stores nothing.
C11_StoredResponsesValid ==
    [][ /\ Len(responses') > Len(responses) =>
            LET r == responses'[Len(responses')] IN
            /\ r.form_id \in DOMAIN forms
            /\ SatisfiesRules(forms[r.form_id].fields, r.data)
        /\ (reply'.op = "POST responses" /\ reply'.id \notin DOMAIN forms) =>
            (reply'.status = 404 /\ responses' = responses) ]_vars

\* C12: for every schema with non-blank labels and every value map, the server's
\* validateResponse returns the same ordered list of messages as the client's
\* validateFormResponse called with all field ids visible and no active jump
\* target, the messages for table cells included.
C12_ServerEqualsClientAllVisible ==
    (/\ pc = "validated"
     /\ VisibleSet = { fields[i].id : i \in 1..Len(fields) }
     /\ \A i \in 1..Len(fields) : Trim(fields[i].label) # <<>>
     /\ jumpTargetId(fields, values) = "")
    => validateResponse(fields, values) = result

\* ------------------------------------------------------------------------
\* Claims about the submission from the preview
\* ------------------------------------------------------------------------
\* handleSubmit has run its validation
Attempted == pc \in {"blocked", "threw", "posting", "returned", "refused"}

\* C13: on every submit attempt, if validate returned at least one message then
\* no POST has been issued and the displayed errors are exactly those messages;
\* a POST has been issued only if validate returned the empty list.
C13_SubmitBlockedOnErrors ==
    /\ (Attempted /\ ~result.threw /\ result.errors # <<>>)
          => (posts = <<>> /\ errors = result.errors /\ pc = "blocked")
    /\ posts # <<>> => (Attempted /\ result = Returned(<<>>))
    /\ (Attempted /\ result = Returned(<<>>)) => Len(posts) = 1

\* C13: a submit attempt on a form with two failing visible fields was blocked
\* with both messages displayed
C13_Witness ==
    /\ pc = "blocked"
    /\ Len(errors) = 2
    /\ posts = <<>>

\* ------------------------------------------------------------------------
\* Claims about the order and the kinds of the validator's messages
\* ------------------------------------------------------------------------
\* the table of Scenario D: one required dropdown column with options [A, B]
ScenarioDColumn ==
    TableColumn("c1", "dropdown", ColLabel1, TRUE, 0, 0, Options(<<OptA, OptB>>))

\* its value: two rows, the first without a cell value, the second holding "C"
ScenarioDValue == Arr(<<RowObject(NoCells), RowObject("c1" :> Str(OptC))>>)

\* the field at position i is a visible Scenario D table holding that value
IsScenarioD(i) ==
    /\ fields[i].type = "table" /\ fields[i].columns = <<ScenarioDColumn>>
    /\ fields[i].id \in VisibleSet
    /\ Get(values, fields[i].id) = ScenarioDValue

\* the position of such a table, 0 if there is none
ScenarioDPosition ==
    IF \E i \in 1..Len(fields) : IsScenarioD(i)
    THEN CHOOSE i \in 1..Len(fields) : IsScenarioD(i)
    ELSE 0

\* the messages of the run that are about the field with this label, in order
MessagesAbout(label) ==
    LET About(m) == m.field = label IN SelectSeq(result.errors, About)

\* position of the column with this label in the field with this label
ColumnPosition(fieldLabel, colLabel) ==
    LET f == fields[CHOOSE i \in 1..Len(fields) : fields[i].label = fieldLabel]
    IN  CHOOSE c \in 1..Len(f.columns) : f.columns[c].label = colLabel

FieldPosition(label) == CHOOSE i \in 1..Len(fields) : fields[i].label = label

\* C14: validate reports every violation in one pass, ordered by field in schema
\* order, then by row, then by column, rows numbered from 1.  For the visible
\* table of Scenario D (no other jump target active) the messages about it are
\* exactly [row 1 is required, row 2 value is not valid]; a failing required rule
\* of any visible field is reported whatever else is reported.
C14_AllViolationsInOrder ==
    (Validated /\ ~result.threw) =>
        /\ \A i \in 1..Len(result.errors) : \A j \in (i + 1)..Len(result.errors) :
              LET a == result.errors[i]
                  b == result.errors[j]
              IN  /\ FieldPosition(a.field) <= FieldPosition(b.field)
                  /\ (a.field = b.field /\ a.inTable /\ b.inTable) =>
                        /\ a.row <= b.row
                        /\ a.row = b.row =>
                              ColumnPosition(a.field, a.col) <= ColumnPosition(b.field, b.col)
        /\ (ScenarioDPosition # 0
              /\ jumpTargetId(fields, values) \in {"", fields[ScenarioDPosition].id}) =>
              MessagesAbout(fields[ScenarioDPosition].label) =
                 << CellMessage(ScenarioDColumn, fields[ScenarioDPosition], 0,
                                " is required.", 0),
                    CellMessage(ScenarioDColumn, fields[ScenarioDPosition], 1,
                                " value is not valid.", 0) >>
        /\ jumpTargetId(fields, values) = "" =>
              \A i \in 1..Len(fields) :
                  (fields[i].id \in VisibleSet /\ RequiredFails(fields, values, i)) =>
                      \E m \in Messages : IsRequiredMessage(m) /\ m.field = fields[i].label

\* C14: Scenario D validated together with a failing required text before it:
\* three messages, the text's first
C14_Witness ==
    /\ Validated /\ ~result.threw
    /\ ScenarioDPosition = 3
    /\ jumpTargetId(fields, values) = ""
    /\ Len(result.errors) = 3
    /\ result.errors[1].field = Labels[2]

\* C15: table cells are validated by the rules of their column's kind: validate
\* never produces a "value is not valid." message for a cell of a text column,
\* whatever other properties the column stores (such as an options list left on
\* it); option membership is checked for dropdown columns only.
C15_NoOptionCheckOnTextColumns ==
    (Validated /\ ~result.threw) =>
        \A m \in Messages :
            (m.inTable /\ m.rule = " value is not valid.") =>
                LET f == fields[FieldPosition(m.field)]
                IN  f.columns[ColumnPosition(m.field, m.col)].type = "dropdown"

\* a visible table field whose value is absent
AbsentTable(i) ==
    /\ fields[i].type = "table"
    /\ fields[i].id \in VisibleSet
    /\ Get(values, fields[i].id) = Undefined

\* C16: a table field is validated only when its value is an array: for a visible
\* table field whose value is absent validate raises nothing and produces no
\* message about it, whatever its mode, row labels and column rules.
C16_AbsentTableNotValidated ==
    Validated =>
        \A i \in 1..Len(fields) :
            AbsentTable(i) => (~result.threw /\ MessagesAbout(fields[i].label) = <<>>)

\* C16: a visible static table with two row labels and a required column was
\* validated without a value, with no jump target active
C16_Witness ==
    /\ Validated
    /\ jumpTargetId(fields, values) = ""
    /\ \E i \in 1..Len(fields) :
          /\ AbsentTable(i)
          /\ fields[i].mode = "static"
          /\ Len(fields[i].rowLabels.items) = 2
          /\ fields[i].columns[1].required

\* ------------------------------------------------------------------------
\* Claims about the ids of stored forms
\* ------------------------------------------------------------------------
\* a step that answers POST /api/forms stores one form under a fresh id and
\* touches nothing else
CreateStoresFresh ==
    reply'.op = "POST forms" =>
        /\ DOMAIN forms' = DOMAIN forms \cup {nextFormId}
        /\ nextFormId \notin DOMAIN forms
        /\ reply'.body = <<nextFormId>>
        /\ \A k \in DOMAIN forms : forms'[k] = forms[k]
        /\ responses' = responses

\* a step that answers PUT /api/forms/:id keeps the keys, every other form and
\* every response
UpdateReplacesOne ==
    reply'.op = "PUT form" =>
        /\ DOMAIN forms' = DOMAIN forms
        /\ \A k \in DOMAIN forms \ {reply'.id} : forms'[k] = forms[k]
        /\ responses' = responses

\* C17: every stored form's embedded id is the key it is stored under; create
\* stores under a freshly generated id (an id in the request body is overridden)
\* and touches nothing else; update by id keeps the set of keys and leaves every
\* other form and every response unchanged.
C17_FormIdsAndFullReplace ==
    /\ [](\A k \in DOMAIN forms : forms[k].id = k /\ k < nextFormId)
    /\ [][CreateStoresFresh /\ UpdateReplacesOne]_vars

\* C17: a stored form was replaced by an update while another form and a response
\* were stored
C17_Witness ==
    /\ reply.op = "PUT form"
    /\ reply.id \in DOMAIN forms
    /\ forms[reply.id].fields # <<>>
    /\ Cardinality(DOMAIN forms) = 2
    /\ responses # <<>>

\* ------------------------------------------------------------------------
\* Claims about fields before the branching dropdown and about the rules that
\* a jump target leaves in force
\* ------------------------------------------------------------------------
\* C18: whenever a branching dropdown B exists and the jump target is absent or is
\* a field positioned after B, resolve's output starts with B's id and holds no
\* field positioned before B.
C18_FieldsBeforeBranchHidden ==
    (/\ pc = "rendered"
     /\ BranchIdx(fields) # 0
     /\ \/ SelectedTarget(fields, values) = ""
        \/ PositionOf(fields, SelectedTarget(fields, values)) > BranchIdx(fields))
    => /\ visibleFieldIds[1] = fields[BranchIdx(fields)].id
       /\ \A i \in 1..(BranchIdx(fields) - 1) : \A j \in 1..Len(visibleFieldIds) :
             visibleFieldIds[j] # fields[i].id

\* C18: the resolver ran on a schema with a field before the branching dropdown
\* and a selected jump target after it
C18_Witness ==
    /\ pc = "rendered"
    /\ BranchIdx(fields) = 2
    /\ PositionOf(fields, SelectedTarget(fields, values)) = 3
    /\ ~NotATarget(fields, fields[3].id)
    /\ NotATarget(fields, fields[1].id)

\* a message with this rule and number about the field with this label
HasFieldMessage(label, rule, n) ==
    \E m \in Messages : ~m.inTable /\ m.field = label /\ m.rule = rule /\ m.n = n

\* a message with this rule and number about a cell of row r (numbered from 1)
HasCellMessage(label, colLabel, r, rule, n) ==
    \E m \in Messages :
        m.inTable /\ m.field = label /\ m.col = colLabel /\ m.row = r
            /\ m.rule = rule /\ m.n = n

TooShort(v, minLength) == minLength # 0 /\ v.k = "string" /\ Len(v.s) < minLength

TooLong(v, maxLength) == maxLength # 0 /\ v.k = "string" /\ Len(v.s) > maxLength

NotAnOption(v, options) ==
    /\ v.k = "string" /\ v.s # <<>> /\ options.defined
    /\ \A k \in 1..Len(options.items) : options.items[k] # v.s

\* the length and option rules of the visible field at position i are reported
LengthAndOptionRulesReported(i) ==
    LET f == fields[i]
        v == Get(values, f.id)
    IN  CASE f.type = "text" ->
                /\ TooShort(v, f.minLength) =>
                      HasFieldMessage(f.label, " must be at least  characters.", f.minLength)
                /\ TooLong(v, f.maxLength) =>
                      HasFieldMessage(f.label, " must be at most  characters.", f.maxLength)
          [] f.type = "dropdown" ->
                NotAnOption(v, f.options) =>
                    HasFieldMessage(f.label, " value is not valid.", 0)
          [] OTHER ->
                v.k = "array" =>
                    \A r \in 1..Len(v.rows) : \A c \in 1..Len(f.columns) :
                        LET col == f.columns[c]
                            cell == Cell(v.rows[r], col.id)
                        IN  v.rows[r].k = "object" =>
                            /\ (col.type = "text" /\ TooShort(cell, col.minLength)) =>
                                  HasCellMessage(f.label, col.label, r,
                                      " must be at least  characters.", col.minLength)
                            /\ (col.type = "text" /\ TooLong(cell, col.maxLength)) =>
                                  HasCellMessage(f.label, col.label, r,
                                      " must be at most  characters.", col.maxLength)
                            /\ (col.type = "dropdown" /\ NotAnOption(cell, col.options)) =>
                                  HasCellMessage(f.label, col.label, r,
                                      " value is not valid.", 0)

\* C19: jump-target suppression affects only the required rule: a violated
\* minLength or maxLength of a visible text field or text cell, and a non-empty
\* value of a visible dropdown or dropdown cell that is no option, is reported
\* whether or not a jump target is active and whether or not the field is it.
C19_SuppressionOnlyForRequired ==
    (Validated /\ ~result.threw) =>
        \A i \in 1..Len(fields) :
            fields[i].id \in VisibleSet => LengthAndOptionRulesReported(i)

\* C19: under an active jump target a visible text field that is not the target
\* is too short and the message is reported
C19_Witness ==
    /\ pc = "submitted" /\ ~result.threw
    /\ SelectedTarget(fields, values) = "f2"
    /\ fields[3].type = "text"
    /\ "f3" \in VisibleSet
    /\ TooShort(Get(values, "f3"), fields[3].minLength)
    /\ HasFieldMessage(fields[3].label, " must be at least  characters.", 2)

\* ------------------------------------------------------------------------
\* Claims about the table editor
\* ------------------------------------------------------------------------
\* C20: after any sequence of table-editor operations every static table field
\* has a rowLabels list with at least one entry and every dynamic table field
\* has no rowLabels.
C20_RowLabelsMatchMode ==
    pc = "editing" =>
        \A i \in Tables :
            /\ fields[i].mode \in {"static", "dynamic"}
            /\ fields[i].mode = "static" =>
                  (fields[i].rowLabels.defined /\ Len(fields[i].rowLabels.items) >= 1)
            /\ fields[i].mode = "dynamic" => ~fields[i].rowLabels.defined

\* C20: a table with one column that was made static, given a second row label
\* and had its first row label cleared
C20_Witness ==
    /\ pc = "editing"
    /\ \E i \in Tables :
          /\ fields[i].mode = "static"
          /\ Len(fields[i].rowLabels.items) = 2
          /\ fields[i].rowLabels.items[1] = Empty
          /\ Len(fields[i].columns) = 1

\* ------------------------------------------------------------------------
\* Claims about saving a form
\* ------------------------------------------------------------------------
NonBlankAll(items) == \A i \in 1..Len(items) : Trim(items[i]) # <<>>

GoodOptions(options) ==
    options.defined /\ Len(options.items) >= 1 /\ NonBlankAll(options.items)

WellFormedField(f) ==
    /\ Trim(f.label) # <<>>
    /\ f.type = "dropdown" => GoodOptions(f.options)
    /\ f.type = "table" =>
         /\ Len(f.columns) >= 1
         /\ \A c \in 1..Len(f.columns) :
               /\ Trim(f.columns[c].label) # <<>>
               /\ f.columns[c].type = "dropdown" => GoodOptions(f.columns[c].options)
         /\ f.mode = "static" => NonBlankAll(f.rowLabels.items)

WellFormed(f) ==
    /\ Trim(f.title) # <<>>
    /\ \A i \in 1..Len(f.fields) : WellFormedField(f.fields[i])

\* C21: every form the builder hands to onSave, and every form the store then
\* holds, has a non-blank title, non-blank field labels, at least one option and
\* only non-blank options on dropdown fields and dropdown columns, at least one
\* column with non-blank labels on tables, and non-blank row labels on static
\* tables.
C21_SavedFormsWellFormed ==
    /\ \A k \in 1..Len(requests) : WellFormed(requests[k].body)
    /\ \A id \in DOMAIN forms : WellFormed(forms[id])

\* C21: a save went through for a form holding a static table with a dropdown
\* column
C21_Witness ==
    \E id \in DOMAIN forms : \E i \in 1..Len(forms[id].fields) :
        /\ forms[id].fields[i].type = "table"
        /\ forms[id].fields[i].mode = "static"
        /\ forms[id].fields[i].columns[1].type = "dropdown"

\* C30: within one builder session opened with Create New Form the store
\* never holds more than one form, whatever the interleaving of Save clicks and
\* replies.
C30_OneFormPerSession == Cardinality(DOMAIN forms) <= 1

\* ------------------------------------------------------------------------
\* Claims about client and server agreeing
\* ------------------------------------------------------------------------
\* C22: whenever the client validator, called with the resolver's output, lets a
\* submission through, the server's validateResponse on the same form and the
\* posted values returns no errors, so the submission is stored and not refused.
C22_ClientPassImpliesServerPass ==
    pc = "posting" => validateResponse(fields, posts[Len(posts)]) = Returned(<<>>)

\* ------------------------------------------------------------------------
\* Claims about editing in the preview
\* ------------------------------------------------------------------------
\* C23: after any sequence of preview edits every table value is absent or a
\* sequence whose entries are all row objects: no hole, no undefined, no null.
C23_TableValuesGapFree ==
    \A id \in DOMAIN values :
        values[id].k = "array" =>
            \A r \in 1..Len(values[id].rows) : values[id].rows[r].k = "object"

\* C25: the value map posted to the server has entries only for fields that are
\* in the resolver's output at submit time.
C25_OnlyVisibleValuesPosted ==
    pc = "posting" => \A id \in DOMAIN posts[Len(posts)] : Rendered(id)

\* ------------------------------------------------------------------------
\* Claims about the resolver's output as a list
\* ------------------------------------------------------------------------
\* C24: for every schema and value map the resolver's output holds no id twice
\* and only ids of fields of the schema.
C24_OutputDistinctFieldIds ==
    pc = "rendered" =>
        /\ \A i, j \in 1..Len(visibleFieldIds) :
              i # j => visibleFieldIds[i] # visibleFieldIds[j]
        /\ \A i \in 1..Len(visibleFieldIds) :
              \E k \in 1..Len(fields) : fields[k].id = visibleFieldIds[i]

\* ------------------------------------------------------------------------
\* Claims about conditions in the builder
\* ------------------------------------------------------------------------
\* C26: in the builder every non-empty condition target of every dropdown is
\* the id of a field of the form positioned after that dropdown.
C26_TargetsExistAndFollow ==
    pc = "editing" =>
        \A i \in Dropdowns : \A o \in DOMAIN fields[i].condition.map :
            fields[i].condition.map[o] # "" =>
                \E k \in (i + 1)..Len(fields) : fields[k].id = fields[i].condition.map[o]

\* C27: in the builder every key of a dropdown's condition map is one of the
\* dropdown's current options.
C27_ConditionKeysAreOptions ==
    pc = "editing" =>
        \A i \in Dropdowns : \A o \in DOMAIN fields[i].condition.map :
            \E index \in 1..Len(fields[i].options.items) :
                fields[i].options.items[index] = o

\* ------------------------------------------------------------------------
\* Claims about absent and empty text values
\* ------------------------------------------------------------------------
\* C28: replacing the absent value of a visible text field by the empty
\* string does not change the list of messages the validator returns.
C28_AbsentEqualsEmpty ==
    Validated =>
        \A i \in 1..Len(fields) :
            (/\ fields[i].type = "text"
             /\ fields[i].id \in VisibleSet
             /\ Get(values, fields[i].id).k = "undefined")
            => validateFormResponse((fields[i].id :> Str(Empty)) @@ values, fields,
                                    visibleFieldIds) = result

\* ------------------------------------------------------------------------
\* Claims about the navigation of App
\* ------------------------------------------------------------------------
\* C29: in every reachable state of App, when mode is preview or responses the
\* current form is not null, so a page with a navigation control is rendered.
C29_NoDeadPage == appMode \in {"preview", "responses"} => form # {}

====
